---- MODULE Spec2Model ----
(***************************************************************************)
(* A model of the flowlens exploration engine: URL canonicalization, the   *)
(* site graph and its priority frontier (SiteExplorer.explore and          *)
(* QAAgent.run), and journey execution (QAAgent._execute_journey and       *)
(* FlowRunner._execute_flow).                                              *)
(*                                                                         *)
(* A URL is the sequence of the characters that follow "http://": the      *)
(* network location, then path, parameters, query and fragment.  A         *)
(* character is a one-character string.                                    *)
(***************************************************************************)
EXTENDS Integers, Sequences, FiniteSets, TLC

(***************************************************************************)
(* Characters and strings                                                  *)
(***************************************************************************)

\* Code points of the characters the model uses (Python compares strings by
\* code point).
Ascii ==
    (" " :> 32) @@ ("#" :> 35) @@ ("%" :> 37) @@ ("&" :> 38) @@ ("+" :> 43) @@
    ("-" :> 45) @@ ("." :> 46) @@ ("/" :> 47) @@ ("0" :> 48) @@ ("1" :> 49) @@
    ("2" :> 50) @@ ("3" :> 51) @@ ("4" :> 52) @@ ("5" :> 53) @@ ("6" :> 54) @@
    ("7" :> 55) @@ ("8" :> 56) @@ ("9" :> 57) @@ (":" :> 58) @@ (";" :> 59) @@
    ("=" :> 61) @@ ("?" :> 63) @@ ("A" :> 65) @@ ("B" :> 66) @@ ("C" :> 67) @@
    ("D" :> 68) @@ ("E" :> 69) @@ ("F" :> 70) @@ ("G" :> 71) @@ ("H" :> 72) @@
    ("I" :> 73) @@ ("J" :> 74) @@ ("K" :> 75) @@ ("L" :> 76) @@ ("M" :> 77) @@
    ("N" :> 78) @@ ("O" :> 79) @@ ("P" :> 80) @@ ("Q" :> 81) @@ ("R" :> 82) @@
    ("S" :> 83) @@ ("T" :> 84) @@ ("U" :> 85) @@ ("V" :> 86) @@ ("W" :> 87) @@
    ("X" :> 88) @@ ("Y" :> 89) @@ ("Z" :> 90) @@ ("_" :> 95) @@ ("a" :> 97) @@
    ("b" :> 98) @@ ("c" :> 99) @@ ("d" :> 100) @@ ("e" :> 101) @@ ("f" :> 102) @@
    ("g" :> 103) @@ ("h" :> 104) @@ ("i" :> 105) @@ ("j" :> 106) @@ ("k" :> 107) @@
    ("l" :> 108) @@ ("m" :> 109) @@ ("n" :> 110) @@ ("o" :> 111) @@ ("p" :> 112) @@
    ("q" :> 113) @@ ("r" :> 114) @@ ("s" :> 115) @@ ("t" :> 116) @@ ("u" :> 117) @@
    ("v" :> 118) @@ ("w" :> 119) @@ ("x" :> 120) @@ ("y" :> 121) @@ ("z" :> 122) @@
    ("~" :> 126)

KnownChars == DOMAIN Ascii

Ord(c) == Ascii[c]

Chr(n) == CHOOSE c \in KnownChars : Ascii[c] = n

MinOf(S) == CHOOSE x \in S : \A y \in S : x <= y

MaxOf(S) == CHOOSE x \in S : \A y \in S : y <= x

\* str.find(c, from): the least index >= from holding c, 0 when there is none
\* (indices are 1-based here).
Find(s, c, from) ==
    LET I == {i \in from..Len(s) : s[i] = c}
    IN  IF I = {} THEN 0 ELSE MinOf(I)

\* str.rfind(c): the greatest index holding c, 0 when there is none.
RFind(s, c) ==
    LET I == {i \in 1..Len(s) : s[i] = c}
    IN  IF I = {} THEN 0 ELSE MaxOf(I)

\* The least index holding any character of cs, 0 when there is none.
FindAny(s, cs) ==
    LET I == {i \in 1..Len(s) : s[i] \in cs}
    IN  IF I = {} THEN 0 ELSE MinOf(I)

Before(s, i) == SubSeq(s, 1, i - 1)

After(s, i) == SubSeq(s, i + 1, Len(s))

\* Python's s1 < s2 on strings: lexicographic by code point.
RECURSIVE StrLess(_, _)
StrLess(s, t) ==
    IF t = << >> THEN FALSE
    ELSE IF s = << >> THEN TRUE
    ELSE IF Head(s) # Head(t) THEN Ord(Head(s)) < Ord(Head(t))
    ELSE StrLess(Tail(s), Tail(t))

\* str.rstrip("/")
RECURSIVE RStripSlash(_)
RStripSlash(s) ==
    IF s # << >> /\ s[Len(s)] = "/" THEN RStripSlash(SubSeq(s, 1, Len(s) - 1)) ELSE s

\* str.split(c)
RECURSIVE Split(_, _)
Split(s, c) ==
    LET i == Find(s, c, 1)
    IN  IF i = 0 THEN << s >> ELSE << Before(s, i) >> \o Split(After(s, i), c)

\* prefix in s at position i
MatchAt(s, pat, i) ==
    /\ i + Len(pat) - 1 <= Len(s)
    /\ \A k \in 1..Len(pat) : s[i + k - 1] = pat[k]

\* pat in s
Contains(s, pat) == \E i \in 1..(Len(s) + 1) : MatchAt(s, pat, i)

\* s.endswith(pat)
EndsWith(s, pat) == Len(pat) <= Len(s) /\ MatchAt(s, pat, Len(s) - Len(pat) + 1)

(***************************************************************************)
(* urllib.parse, as SiteExplorer._normalize uses it                        *)
(***************************************************************************)

HexChars == {"0", "1", "2", "3", "4", "5", "6", "7", "8", "9",
             "A", "B", "C", "D", "E", "F", "a", "b", "c", "d", "e", "f"}

HexVal(c) ==
    IF Ord(c) <= Ord("9") THEN Ord(c) - Ord("0")
    ELSE IF Ord(c) <= Ord("F") THEN Ord(c) - Ord("A") + 10
    ELSE Ord(c) - Ord("a") + 10

HexChar(n) == IF n < 10 THEN Chr(Ord("0") + n) ELSE Chr(Ord("A") + n - 10)

\* Characters quote_plus leaves alone: letters, digits and "_.-~".
SafeChars ==
    {c \in KnownChars :
        \/ Ord(c) \in Ord("0")..Ord("9")
        \/ Ord(c) \in Ord("A")..Ord("Z")
        \/ Ord(c) \in Ord("a")..Ord("z")
        \/ c \in {"_", ".", "-", "~"}}

\* urllib.parse.quote_plus
RECURSIVE QuotePlus(_)
QuotePlus(s) ==
    IF s = << >> THEN << >>
    ELSE LET c == Head(s)
             e == IF c \in SafeChars THEN << c >>
                  ELSE IF c = " " THEN << "+" >>
                  ELSE << "%", HexChar(Ord(c) \div 16), HexChar(Ord(c) % 16) >>
         IN  e \o QuotePlus(Tail(s))

\* urllib.parse.unquote: "%XX" with two hex digits becomes the character.
RECURSIVE Unquote(_)
Unquote(s) ==
    IF s = << >> THEN << >>
    ELSE IF /\ Head(s) = "%"
            /\ Len(s) >= 3
            /\ s[2] \in HexChars
            /\ s[3] \in HexChars
         THEN << Chr(16 * HexVal(s[2]) + HexVal(s[3])) >> \o Unquote(SubSeq(s, 4, Len(s)))
         ELSE << Head(s) >> \o Unquote(Tail(s))

\* name.replace('+', ' ')
PlusToSpace(s) == [i \in 1..Len(s) |-> IF s[i] = "+" THEN " " ELSE s[i]]

\* urllib.parse._splitparams
SplitParams(url) ==
    LET slash == RFind(url, "/")
        i == IF slash > 0 THEN Find(url, ";", slash) ELSE Find(url, ";", 1)
    IN  IF i = 0 THEN [path |-> url, params |-> << >>]
        ELSE [path |-> Before(url, i), params |-> After(url, i)]

\* the netloc up to the first of "/", "?" and "#", found at d, and the rest
SplitNetloc(u, d) ==
    [netloc |-> IF d = 0 THEN u ELSE Before(u, d),
     rest |-> IF d = 0 THEN << >> ELSE SubSeq(u, d, Len(u))]

\* url.split(sep, 1), the separator found at i
SplitOnce(s, i) ==
    [head |-> IF i = 0 THEN s ELSE Before(s, i),
     tail |-> IF i = 0 THEN << >> ELSE After(s, i)]

\* urlparse: the path loses its ";" parameters
PathParams(url) ==
    IF Find(url, ";", 1) > 0 THEN SplitParams(url)
    ELSE [path |-> url, params |-> << >>]

ParseResult(netloc, pp, query, fragment) ==
    [netloc |-> netloc, path |-> pp.path, params |-> pp.params,
     query |-> query, fragment |-> fragment]

\* urlsplit after the query was split off
ParseAfterQuery(netloc, pq, fragment) ==
    ParseResult(netloc, PathParams(pq.head), pq.tail, fragment)

\* urlsplit after the fragment was split off
ParseAfterFragment(netloc, rf) ==
    ParseAfterQuery(netloc, SplitOnce(rf.head, Find(rf.head, "?", 1)), rf.tail)

\* urlsplit after the netloc was split off
ParseAfterNetloc(nr) ==
    ParseAfterFragment(nr.netloc, SplitOnce(nr.rest, Find(nr.rest, "#", 1)))

\* urllib.parse.urlparse of "http://" followed by u
UrlParse(u) == ParseAfterNetloc(SplitNetloc(u, FindAny(u, {"/", "?", "#"})))

AddParams(path, params) ==
    IF params # << >> THEN path \o << ";" >> \o params ELSE path

LeadSlash(url) ==
    IF url # << >> /\ Head(url) # "/" THEN << "/" >> \o url ELSE url

AddQuery(url, query) ==
    IF query # << >> THEN url \o << "?" >> \o query ELSE url

AddFragment(url, fragment) ==
    IF fragment # << >> THEN url \o << "#" >> \o fragment ELSE url

\* urllib.parse.urlunparse, without the "http://"
UrlUnparse(p) ==
    AddFragment(
        AddQuery(p.netloc \o LeadSlash(AddParams(p.path, p.params)), p.query),
        p.fragment)

\* urllib.parse.parse_qsl (keep_blank_values = False): the name/value pairs
\* of a query in order, fields without "=" or with an empty value dropped.
RECURSIVE ParseFields(_)
ParseFields(fields) ==
    IF fields = << >> THEN << >>
    ELSE LET nv == Head(fields)
             eq == Find(nv, "=", 1)
             value == After(nv, eq)
         IN  IF nv = << >> \/ eq = 0 \/ value = << >>
             THEN ParseFields(Tail(fields))
             ELSE << << Unquote(PlusToSpace(Before(nv, eq))),
                        Unquote(PlusToSpace(value)) >> >>
                  \o ParseFields(Tail(fields))

ParseQsl(query) == ParseFields(Split(query, "&"))

\* The names of a set of strings in ascending order.
RECURSIVE SortedNames(_)
SortedNames(S) ==
    IF S = {} THEN << >>
    ELSE LET m == CHOOSE x \in S : \A y \in S \ {x} : StrLess(x, y)
         IN  << m >> \o SortedNames(S \ {m})

\* The values parse_qs collects under one name, in order of appearance.
RECURSIVE ValuesOf(_, _)
ValuesOf(pairs, name) ==
    IF pairs = << >> THEN << >>
    ELSE (IF Head(pairs)[1] = name THEN << Head(pairs)[2] >> ELSE << >>)
         \o ValuesOf(Tail(pairs), name)

\* one (name, values) item per name, in the order of names
ItemsByName(pairs, names) ==
    [i \in 1..Len(names) |-> << names[i], ValuesOf(pairs, names[i]) >>]

\* sorted(parse_qs(...).items()) for the pairs parse_qsl returns
ItemsOf(pairs) ==
    ItemsByName(pairs, SortedNames({pairs[i][1] : i \in 1..Len(pairs)}))

\* sorted(parse_qs(query).items()): one (name, values) item per name, by name.
SortedItems(query) == ItemsOf(ParseQsl(query))

\* The "name=value" fields urlencode(..., doseq=True) writes for one item.
RECURSIVE EncodeValues(_, _)
EncodeValues(name, values) ==
    IF values = << >> THEN << >>
    ELSE << QuotePlus(name) \o << "=" >> \o QuotePlus(Head(values)) >>
         \o EncodeValues(name, Tail(values))

RECURSIVE EncodeItems(_)
EncodeItems(items) ==
    IF items = << >> THEN << >>
    ELSE EncodeValues(Head(items)[1], Head(items)[2]) \o EncodeItems(Tail(items))

\* '&'.join(fields)
RECURSIVE JoinAmp(_)
JoinAmp(fields) ==
    IF fields = << >> THEN << >>
    ELSE IF Len(fields) = 1 THEN Head(fields)
    ELSE Head(fields) \o << "&" >> \o JoinAmp(Tail(fields))

\* urllib.parse.urlencode(items, doseq=True)
UrlEncode(items) == JoinAmp(EncodeItems(items))

\* s or "/"
OrSlash(s) == IF s = << >> THEN << "/" >> ELSE s

\* The path _normalize writes: path.rstrip("/") or "/"
NormalPath(path) == OrSlash(RStripSlash(path))

\* parsed._replace(...) and urlunparse
NormalizeParsed(parsed) ==
    UrlUnparse([parsed EXCEPT
        !.fragment = << >>,
        !.query = UrlEncode(SortedItems(parsed.query)),
        !.path = NormalPath(parsed.path)])

\* SiteExplorer._normalize, QAAgent._normalize and SiteCrawler._normalize
Normalize(u) == NormalizeParsed(UrlParse(u))

(***************************************************************************)
(* Admission policy                                                        *)
(***************************************************************************)

\* str.lower()
Lower(s) ==
    [i \in 1..Len(s) |->
        IF Ord(s[i]) \in Ord("A")..Ord("Z") THEN Chr(Ord(s[i]) + Ord("a") - Ord("A"))
        ELSE s[i]]

\* '.'.join(labels)
RECURSIVE JoinDot(_)
JoinDot(labels) ==
    IF labels = << >> THEN << >>
    ELSE IF Len(labels) = 1 THEN Head(labels)
    ELSE Head(labels) \o << "." >> \o JoinDot(Tail(labels))

\* _extract_root_domain and _root_domain: the last two labels of a host name
RootDomain(netloc) ==
    LET parts == Split(netloc, ".")
    IN  IF Len(parts) >= 2 THEN JoinDot(SubSeq(parts, Len(parts) - 1, Len(parts)))
        ELSE netloc

\* skip_ext of SiteExplorer._is_allowed
ExplorerSkipExt ==
    {<< ".", "p", "d", "f" >>, << ".", "z", "i", "p" >>, << ".", "p", "n", "g" >>, << ".", "j", "p", "g" >>,
     << ".", "j", "p", "e", "g" >>, << ".", "g", "i", "f" >>, << ".", "s", "v", "g" >>, << ".", "w", "e", "b", "p" >>,
     << ".", "c", "s", "s" >>, << ".", "j", "s" >>, << ".", "i", "c", "o" >>, << ".", "w", "o", "f", "f" >>,
     << ".", "w", "o", "f", "f", "2" >>, << ".", "t", "t", "f" >>, << ".", "e", "o", "t" >>, << ".", "m", "p", "4" >>,
     << ".", "m", "p", "3" >>, << ".", "w", "e", "b", "m" >>, << ".", "a", "v", "i" >>, << ".", "m", "o", "v" >>,
     << ".", "x", "m", "l" >>, << ".", "r", "s", "s" >>, << ".", "a", "t", "o", "m" >>, << ".", "j", "s", "o", "n" >>}

\* skip_patterns of SiteExplorer._is_allowed
ExplorerSkipPatterns ==
    {<< "/", "w", "p", "-", "a", "d", "m", "i", "n" >>, << "/", "a", "d", "m", "i", "n", "/" >>, << "m", "a", "i", "l", "t", "o", ":" >>, << "t", "e", "l", ":" >>,
     << "j", "a", "v", "a", "s", "c", "r", "i", "p", "t", ":" >>}

\* the extensions QAAgent._is_allowed rejects
AgentSkipExt ==
    {<< ".", "p", "d", "f" >>, << ".", "z", "i", "p" >>, << ".", "p", "n", "g" >>, << ".", "j", "p", "g" >>,
     << ".", "g", "i", "f" >>, << ".", "s", "v", "g" >>, << ".", "c", "s", "s" >>, << ".", "j", "s" >>,
     << ".", "i", "c", "o" >>, << ".", "w", "o", "f", "f" >>, << ".", "m", "p", "4" >>, << ".", "x", "m", "l" >>,
     << ".", "j", "s", "o", "n" >>}

\* the patterns QAAgent._is_allowed rejects
AgentSkipPatterns ==
    {<< "m", "a", "i", "l", "t", "o", ":" >>, << "t", "e", "l", ":" >>, << "j", "a", "v", "a", "s", "c", "r", "i", "p", "t", ":" >>, << "/", "w", "p", "-", "a", "d", "m", "i", "n" >>}

\* The text of a URL as the code holds it, "http://" included.
HttpPrefix == << "h", "t", "t", "p", ":", "/", "/" >>

\* SiteExplorer._is_allowed and QAAgent._is_allowed: same site (equal host or
\* equal root domain), no skipped extension, no skipped pattern.
IsAllowedBy(url, base_domain, skip_ext, skip_patterns) ==
    LET parsed == UrlParse(url)
        path == Lower(parsed.path)
        text == Lower(HttpPrefix \o url)
    IN  /\ url # << >>
        /\ \/ parsed.netloc = base_domain
           \/ RootDomain(parsed.netloc) = RootDomain(base_domain)
        /\ \A ext \in skip_ext : ~EndsWith(path, ext)
        /\ \A pat \in skip_patterns : ~Contains(text, pat)

(***************************************************************************)
(* State                                                                   *)
(***************************************************************************)

VARIABLES
    engine,       \* "explorer" (SiteExplorer) or "agent" (QAAgent)
    base_url,     \* self.base_url
    max_pages,    \* self.max_pages
    nodes,        \* SiteGraph.nodes: url -> [status, depth]
    edges,        \* SiteGraph.edges, the (from, to) pairs
    queue,        \* the frontier heap, entries (-priority, depth, url) in pop order
    visit_count,  \* _visit_count / AgentState.visit_count
    pc,           \* where the scanning lane is
    cur,          \* the url of the node being visited
    elem_n,       \* how many elements the scan has handled
    last_rank,    \* the catalog rank of the last element handled
    counts,       \* the per-type interaction counters of _interact_with_elements
    tracks,       \* how many navigations the journeys have tracked
    norm_in,      \* canonicalization runs: the urls given
    norm_out,     \* canonicalization runs: the results so far
    runner,          \* journeys: "agent" (QAAgent) or "flow_runner" (FlowRunner)
    ai_available,    \* journeys: self._ai.available
    auth_logged_in,  \* journeys: AgentState.auth_logged_in
    completed_flows, \* journeys: AgentState.completed_flows / the results list
    jpc,             \* journeys: where the journey loop is
    journey,         \* journeys: the journey or flow being executed
    step_results,    \* journeys: the local step_results
    flow_result,     \* journeys: the local flow_result of _visit_and_test
    retry_result,    \* journeys: the local retry_result of _visit_and_test
    flow_status,     \* journeys: the local status of FlowRunner._execute_flow
    step_action,     \* one step: the action of the step, "type" or "click"
    index_target,    \* one step: what the catalog-indexed selector finds
    text_contains,   \* one step: whether the step carries a text_contains
    buttons,         \* one step: the buttons and links of the page, in order
    inputs,          \* one step: the inputs and textareas of the page, in order
    check_text,      \* one step: whether the step carries a check
    step_ai,         \* one step: self._ai.available
    spc,             \* one step: where _execute_step is
    step_el,         \* one step: the local el of _execute_step
    step_result,     \* one step: the FlowStepResult returned
    snap_before,     \* state verifier: the snapshot taken before
    snap_after,      \* state verifier: the snapshot taken after
    state_change,    \* state verifier: the StateChange compare returned
    vpc,             \* state verifier: whether compare has run
    pw,                  \* auth: whether AuthHandler._pw is set (local display)
    headless_ctx,        \* auth: whether AuthHandler._headless_ctx is set
    cookie_event,        \* auth: whether AuthHandler._cookie_event is set
    event_is_set,        \* auth: whether the asyncio.Event of the scan is set
    auth_cookies,        \* auth: the module-wide _auth_cookies of the backend
    cookie_store_shared, \* auth: whether AuthHandler._cookie_store is _auth_cookies
    auth_attempted,      \* auth: AuthHandler._auth_attempted
    cached_cookies,      \* auth: AuthHandler._cached_cookies, << >> for None
    ctx_cookies,         \* auth: the cookies of the scanning context
    apc,                 \* auth: where check_and_handle_login is
    wall_domain,         \* auth: the domain of the login wall being handled
    auth_result,         \* auth: the last value check_and_handle_login returned
    handoffs,            \* auth: per domain, how many hand-offs were started
    walls,               \* auth: how many login walls have been detected
    heap,                \* frontier order: the heap, a list in tuple order
    inserted,            \* frontier order: its entries in the order of insertion
    crawler,             \* pagination: which engine scans, SiteCrawler or SiteExplorer
    crawl_queue,         \* pagination: SiteCrawler's queue of links
    visited,             \* pagination: SiteCrawler.visited
    pagination_chains,   \* pagination: SiteCrawler._pagination_chains
    page_graph,          \* pagination: SiteExplorer's graph and frontier
    page_links,          \* pagination: the links of the page still to look at
    link_count,          \* pagination: link_count of _interact_with_elements
    pushed,              \* pagination: pagination links enqueued so far, per chain
    det_engine,          \* detectors: SiteExplorer, QAAgent or FlowLensScanner
    det_viewport,        \* detectors: the viewport of the scan
    dpc,                 \* detectors: the detector called next on the page
    det_page,            \* detectors: how many pages were taken up
    det_bugs,            \* detectors: the local list bugs, one detector name per finding
    det_found,           \* detectors: the findings the detectors returned on this page
    det_ran,             \* detectors: the detectors called on this page
    result_bugs,         \* detectors: the findings kept, page by page
    result_errors,       \* detectors: len(self.result.errors)
    ai_find_fn,          \* find_with_retry: whether the caller passed ai_find_fn
    overlay_open,        \* find_with_retry: an overlay covers the page
    scroll_y,            \* find_with_retry: viewports the page is scrolled down
    rpc,                 \* find_with_retry: the strategy reached
    tier_calls,          \* find_with_retry: the strategies tried so far and what each yielded
    found,               \* find_with_retry: the pair returned
    poller,              \* login polling: AuthHandler or RemoteBrowserSession
    original_url,        \* login polling: the url of the login wall
    current_url,         \* login polling: page.url of the login session
    session_jar,         \* login polling: the names of the cookies of the login session
    enter_pressed,       \* login polling: the user pressed Enter in the CLI
    polls,               \* login polling: polls that ended in a sleep
    login_declared,      \* login polling: how the poller ended
    exec_runner,         \* the step executor at work: FlowRunner ("flow") or QAAgent ("agent")
    browser,             \* the state of the page a snapshot would capture
    snapshot_before,     \* the snapshot FlowRunner took before the step
    pending,             \* the step result _execute_step returned, not yet appended
    exec_results,        \* the step results of the flow or journey
    xpc,                 \* where the loop over the steps is
    oracle_reply,        \* what generate_content does for the verification prompt
    call_result,         \* the value AIEngine._call returned
    verify_result,       \* the dict AIEngine.verify_step returned
    verdict,             \* the status and error _execute_step took from it
    opc,                 \* where the verification of the step is
    plan_nodes,          \* the visited nodes of the graph, in the order of the node dict
    plan_reply,          \* what the key and the model call give identify_flows
    planned,             \* the flows identify_flows returned
    ppc,                 \* where identify_flows is
    scan_state,          \* scans[scan_id]["status"] as run_scan leaves it: running or over
    login_url_known,     \* scans[scan_id] holds auth_login_url
    registry,            \* the session _remote_browsers holds for the scan, 0 for none
    sessions,            \* each RemoteBrowserSession: its browser, _closed and _auth_success
    runner_pc,           \* where the _run_remote_browser task of each session is
    done_pc,             \* where the auth_done request in flight is
    done_session,        \* the session the auth_done request read from the registry
    stream_scan,         \* whether run_scan of the scan is running or over
    subscribers,         \* each scan_stream request: its queue, whether the queue is registered, its state
    emitted              \* how many events the scan has broadcast

scanVars == << engine, base_url, max_pages, nodes, edges, queue, visit_count,
               pc, cur, elem_n, last_rank, counts, tracks >>

normVars == << norm_in, norm_out >>

journeyVars ==
    << runner, ai_available, auth_logged_in, completed_flows, jpc, journey,
       step_results, flow_result, retry_result, flow_status >>

stepVars ==
    << step_action, index_target, text_contains, buttons, inputs, check_text,
       step_ai, spc, step_el, step_result >>

verifyVars == << snap_before, snap_after, state_change, vpc >>

authVars ==
    << pw, headless_ctx, cookie_event, event_is_set, auth_cookies,
       cookie_store_shared, auth_attempted, cached_cookies, ctx_cookies, apc,
       wall_domain, auth_result, handoffs, walls >>

heapVars == << heap, inserted >>

pagingVars ==
    << crawler, crawl_queue, visited, pagination_chains, page_graph, page_links, link_count, pushed >>

detectVars ==
    << det_engine, det_viewport, dpc, det_page, det_bugs, det_found, det_ran, result_bugs, result_errors >>

retryVars ==
    << ai_find_fn, overlay_open, scroll_y, rpc, tier_calls, found >>

pollVars ==
    << poller, original_url, current_url, session_jar, enter_pressed, polls, login_declared >>

diffVars ==
    << exec_runner, browser, snapshot_before, pending, exec_results, xpc >>

verdictVars ==
    << oracle_reply, call_result, verify_result, verdict, opc >>

planVars ==
    << plan_nodes, plan_reply, planned, ppc >>

remoteVars ==
    << scan_state, login_url_known, registry, sessions, runner_pc, done_pc, done_session >>

streamVars ==
    << stream_scan, subscribers, emitted >>

\* the variables of the specifications that follow the first six
restVars ==
    << heapVars, pagingVars, detectVars, retryVars, pollVars, diffVars, verdictVars, planVars, remoteVars, streamVars >>

vars ==
    << scanVars, normVars, journeyVars, stepVars, verifyVars, authVars,
       restVars >>

notScanVars ==
    << normVars, journeyVars, stepVars, verifyVars, authVars, restVars >>

notNormVars ==
    << scanVars, journeyVars, stepVars, verifyVars, authVars, restVars >>

notJourneyVars ==
    << scanVars, normVars, stepVars, verifyVars, authVars, restVars >>

notStepVars ==
    << scanVars, normVars, journeyVars, verifyVars, authVars, restVars >>

notVerifyVars ==
    << scanVars, normVars, journeyVars, stepVars, authVars, restVars >>

firstVars ==
    << scanVars, normVars, journeyVars, stepVars, verifyVars, authVars >>

notHeapVars ==
    << firstVars, pagingVars, detectVars, retryVars, pollVars, diffVars, verdictVars, planVars, remoteVars, streamVars >>

notPagingVars ==
    << firstVars, heapVars, detectVars, retryVars, pollVars, diffVars, verdictVars, planVars, remoteVars, streamVars >>

notDetectVars ==
    << firstVars, heapVars, pagingVars, retryVars, pollVars, diffVars, verdictVars, planVars, remoteVars, streamVars >>

notRetryVars ==
    << firstVars, heapVars, pagingVars, detectVars, pollVars, diffVars, verdictVars, planVars, remoteVars, streamVars >>

notPollVars ==
    << firstVars, heapVars, pagingVars, detectVars, retryVars, diffVars, verdictVars, planVars, remoteVars, streamVars >>

notDiffVars ==
    << firstVars, heapVars, pagingVars, detectVars, retryVars, pollVars, verdictVars, planVars, remoteVars, streamVars >>

notVerdictVars ==
    << firstVars, heapVars, pagingVars, detectVars, retryVars, pollVars, diffVars, planVars, remoteVars, streamVars >>

notPlanVars ==
    << firstVars, heapVars, pagingVars, detectVars, retryVars, pollVars, diffVars, verdictVars, remoteVars, streamVars >>

notRemoteVars ==
    << firstVars, heapVars, pagingVars, detectVars, retryVars, pollVars, diffVars, verdictVars, planVars, streamVars >>

notStreamVars ==
    << firstVars, heapVars, pagingVars, detectVars, retryVars, pollVars, diffVars, verdictVars, planVars, remoteVars >>

(***************************************************************************)
(* Bounds of the model and the urls of the modelled site                   *)
(***************************************************************************)

\* elements the pages of one scan show in all
MaxElems == 3

\* links a menu expansion reveals
MaxMenuLinks == 2

\* navigations the journeys of one scan track in all
MaxTracks == 1

\* the largest page budget
MaxBudget == 2

UrlRoot == << "h", ".", "c", "/" >>

UrlA == << "h", ".", "c", "/", "a" >>

UrlASlash == << "h", ".", "c", "/", "a", "/" >>

UrlSub == << "s", ".", "h", ".", "c", "/", "b" >>

UrlOther == << "e", ".", "o", "/" >>

\* a directory-style address whose last segment ends like a script file
UrlScriptSlash == << "h", ".", "c", "/", "a", ".", "j", "s", "/" >>

\* what the user may give as start url
StartUrls == {UrlRoot, UrlASlash}

\* the destinations a page of the site may show or lead to
Hrefs == {UrlRoot, UrlA, UrlASlash, UrlSub, UrlOther, UrlScriptSlash}

NoUrl == << >>

ZeroCounts == [link |-> 0, dropdown |-> 0, form |-> 0, search |-> 0, button |-> 0]

(***************************************************************************)
(* Element catalog                                                         *)
(***************************************************************************)

\* _DISCOVER_ELEMENTS_JS of explorer.py, in the order _interact_with_elements
\* handles the elements: sorted(elements, key=-priority) is stable, so equal
\* priorities keep the order of discovery.
ExplorerKinds ==
    << [type |-> "nav_link", priority |-> 9],
       [type |-> "dropdown", priority |-> 8],
       [type |-> "form", priority |-> 8],
       [type |-> "search", priority |-> 7],
       [type |-> "cta", priority |-> 6],
       [type |-> "content_link", priority |-> 5],
       [type |-> "content_link", priority |-> 4],
       [type |-> "footer_link", priority |-> 2],
       [type |-> "sidebar_link", priority |-> 2] >>

\* _DISCOVER_ELEMENTS_JS of qa_agent.py, in the order of discovery.
AgentKinds ==
    << [type |-> "nav_link", priority |-> 9],
       [type |-> "dropdown", priority |-> 8],
       [type |-> "form", priority |-> 8],
       [type |-> "search", priority |-> 10],
       [type |-> "cta", priority |-> 6],
       [type |-> "content_link", priority |-> 5],
       [type |-> "footer_link", priority |-> 2],
       [type |-> "content_link", priority |-> 4] >>

LinkTypes == {"nav_link", "content_link", "footer_link", "sidebar_link"}

\* The element types the pages of the modelled site show.
SiteTypes == {"nav_link", "content_link", "footer_link", "dropdown", "form", "search", "cta"}

\* The catalog rows the pages of the modelled site fill: no page is so short
\* of links that the fallback row (content_link at priority 4) is used.
SiteRows(kinds) ==
    {r \in DOMAIN kinds : kinds[r].type \in SiteTypes /\ kinds[r].priority # 4}

\* PageElement: the elements a catalog can hold; only anchors carry an href.
ElementsOf(kinds) ==
    {[rank |-> rh[1], type |-> kinds[rh[1]].type, priority |-> kinds[rh[1]].priority,
      href |-> rh[2]] :
        rh \in {x \in SiteRows(kinds) \X (Hrefs \cup {NoUrl}) :
                   x[2] = NoUrl \/ kinds[x[1]].type \in LinkTypes}}

(***************************************************************************)
(* SiteGraph and the frontier                                              *)
(***************************************************************************)

Range(f) == {f[x] : x \in DOMAIN f}

\* SiteNode(url, depth): a new node is "discovered"
SiteNode(d) == [status |-> "discovered", depth |-> d]

\* SiteGraph.add_node
add_node(ns, url, d) == IF url \in DOMAIN ns THEN ns ELSE ns @@ (url :> SiteNode(d))

\* add_edge that records nothing.
add_no_edge(es, from, to) == es

\* SiteGraph.add_edge; the list of edges never holds an edge twice and is
\* read only for membership, so it is held as the set of its members.
add_edge(es, from, to) ==
    IF << from, to >> \in es \/ from = to THEN es ELSE es \cup {<< from, to >>}

\* Tuple order of heap entries (-priority, depth, url)
EntryLess(a, b) ==
    \/ a[1] < b[1]
    \/ a[1] = b[1] /\ a[2] < b[2]
    \/ a[1] = b[1] /\ a[2] = b[2] /\ StrLess(a[3], b[3])

\* heapq.heappush; the heap is held as the list of its entries in ascending
\* tuple order, which fixes what every later heappop returns.
heappush(q, entry) ==
    LET k == Cardinality({i \in 1..Len(q) : ~EntryLess(entry, q[i])})
    IN  SubSeq(q, 1, k) \o << entry >> \o SubSeq(q, k + 1, Len(q))

\* The entry heapq.heappop returns: a least entry.
HeapTop(q) == Head(q)

\* The heap after heapq.heappop
HeapRest(q) == Tail(q)

Max2(a, b) == IF a >= b THEN a ELSE b

\* self.base_url for each start url
BaseUrls == {RStripSlash(u) : u \in StartUrls}

\* Every url the scan can meet: the seed, the destinations and their
\* canonical forms.
SiteUrls == BaseUrls \cup Hrefs \cup {Normalize(h) : h \in Hrefs}

\* how many pagination links the listing page of the site shows
MaxPagingLinks == 6

\* the link of a listing page to its n-th page: h.c/l?p=n
ListUrl(n) == << "h", ".", "c", "/", "l", "?", "p", "=", Chr(Ord("0") + n) >>

PagingUrls == {ListUrl(n) : n \in 1..MaxPagingLinks}

\* _normalize on the urls of the site, computed once
NormalizeOf == [u \in SiteUrls \cup PagingUrls |-> Normalize(u)]

\* self.base_domain
BaseDomainOf(base) == UrlParse(base).netloc

\* SiteExplorer._is_allowed on the urls of the site, computed once per start url
ExplorerAllows ==
    [b \in BaseUrls |->
        {u \in SiteUrls :
            IsAllowedBy(u, BaseDomainOf(b), ExplorerSkipExt, ExplorerSkipPatterns)}]

\* QAAgent._is_allowed on the urls of the site, computed once per start url
AgentAllows ==
    [b \in BaseUrls |->
        {u \in SiteUrls : IsAllowedBy(u, BaseDomainOf(b), AgentSkipExt, AgentSkipPatterns)}]

ExplorerIsAllowed(url) == url \in ExplorerAllows[base_url]

AgentIsAllowed(url) == url \in AgentAllows[base_url]

(***************************************************************************)
(* The scheduler loop: SiteExplorer.explore and QAAgent.run                *)
(***************************************************************************)

\* SiteExplorer.__init__ and the seeding of explore; QAAgent.__init__ and the
\* seeding of run: the start url loses its trailing slashes and becomes the
\* first node and the first frontier entry.
ScanInit ==
    /\ engine \in {"explorer", "agent"}
    /\ base_url \in BaseUrls
    /\ max_pages \in 1..MaxBudget
    /\ nodes = (base_url :> SiteNode(0))
    /\ edges = {}
    /\ queue = << << -10, 0, base_url >> >>
    /\ visit_count = 0
    /\ pc = "loop"
    /\ cur = NoUrl
    /\ elem_n = 0
    /\ last_rank = 0
    /\ counts = ZeroCounts
    /\ tracks = 0

NormIdle == norm_in = << >> /\ norm_out = << >>

\* a FlowResult: its status, the statuses of its steps, and the blocked_reason
\* of its context_summary
FlowResult(status, steps, reason) ==
    [status |-> status, steps |-> steps, blocked_reason |-> reason]

NoResult == FlowResult("none", << >>, "none")

NoJourney == [priority |-> 0, nsteps |-> 0, requires_auth |-> FALSE]

JourneyIdle ==
    /\ runner = "none"
    /\ ai_available = FALSE
    /\ auth_logged_in = FALSE
    /\ completed_flows = << >>
    /\ jpc = "idle"
    /\ journey = NoJourney
    /\ step_results = << >>
    /\ flow_result = NoResult
    /\ retry_result = NoResult
    /\ flow_status = "none"

\* no element found: the None of _get_element
NoElement == [via |-> "none", state |-> "none"]

\* no step result yet
NoStepResult == [status |-> "none", error |-> "none"]

StepIdle ==
    /\ step_action = "none"
    /\ index_target = "none"
    /\ text_contains = FALSE
    /\ buttons = << >>
    /\ inputs = << >>
    /\ check_text = FALSE
    /\ step_ai = FALSE
    /\ spc = "idle"
    /\ step_el = NoElement
    /\ step_result = NoStepResult

\* StateSnapshot(): the defaults of the dataclass
EmptySnapshot ==
    [url |-> "", cookies |-> << >>, local_storage |-> << >>,
     session_storage |-> << >>, console_errors |-> << >>,
     network_errors |-> << >>, dom_hash |-> ""]

\* StateChange(): the defaults of the dataclass
EmptyChange ==
    [cookies_added |-> {}, cookies_removed |-> {}, storage_changes |-> << >>,
     new_console_errors |-> << >>, new_network_errors |-> << >>,
     url_changed |-> FALSE, dom_changed |-> FALSE]

VerifyIdle ==
    /\ snap_before = EmptySnapshot
    /\ snap_after = EmptySnapshot
    /\ state_change = EmptyChange
    /\ vpc = "idle"

\* the None check_and_handle_login returns for a page that is no login wall
NoAuthResult == [success |-> FALSE, method |-> "none", cookies_injected |-> 0]

AuthIdle ==
    /\ pw = FALSE
    /\ headless_ctx = FALSE
    /\ cookie_event = FALSE
    /\ event_is_set = FALSE
    /\ auth_cookies = << >>
    /\ cookie_store_shared = FALSE
    /\ auth_attempted = {}
    /\ cached_cookies = << >>
    /\ ctx_cookies = {}
    /\ apc = "idle"
    /\ wall_domain = "none"
    /\ auth_result = NoAuthResult
    /\ handoffs = << >>
    /\ walls = 0

HeapIdle == heap = << >> /\ inserted = << >>

PagingIdle ==
    /\ crawler = "none"
    /\ crawl_queue = << >>
    /\ visited = {}
    /\ pagination_chains = << >>
    /\ page_graph = [nodes |-> << >>, edges |-> {}, queue |-> << >>]
    /\ page_links = << >>
    /\ link_count = 0
    /\ pushed = << >>

DetectIdle ==
    /\ det_engine = "none"
    /\ det_viewport = "none"
    /\ dpc = "idle"
    /\ det_page = 0
    /\ det_bugs = << >>
    /\ det_found = << >>
    /\ det_ran = {}
    /\ result_bugs = << >>
    /\ result_errors = 0

RetryIdle ==
    /\ ai_find_fn = FALSE
    /\ overlay_open = FALSE
    /\ scroll_y = 0
    /\ rpc = "idle"
    /\ tier_calls = << >>
    /\ found = [el |-> 0, method |-> "none"]

PollIdle ==
    /\ poller = "none"
    /\ original_url = << >>
    /\ current_url = << >>
    /\ session_jar = {}
    /\ enter_pressed = FALSE
    /\ polls = 0
    /\ login_declared = "idle"

DiffIdle ==
    /\ exec_runner = "none"
    /\ browser = EmptySnapshot
    /\ snapshot_before = EmptySnapshot
    /\ pending = << >>
    /\ exec_results = << >>
    /\ xpc = "idle"

VerdictIdle ==
    /\ oracle_reply = [kind |-> "none"]
    /\ call_result = [type |-> "none"]
    /\ verify_result = << >>
    /\ verdict = [status |-> "none", error |-> "none"]
    /\ opc = "idle"

PlanIdle ==
    /\ plan_nodes = << >>
    /\ plan_reply = [kind |-> "none"]
    /\ planned = << >>
    /\ ppc = "idle"

RemoteIdle ==
    /\ scan_state = "none"
    /\ login_url_known = FALSE
    /\ registry = 0
    /\ sessions = << >>
    /\ runner_pc = << >>
    /\ done_pc = "idle"
    /\ done_session = 0

StreamIdle ==
    /\ stream_scan = "none"
    /\ subscribers = << >>
    /\ emitted = 0

\* the specifications that follow the first six are idle
RestIdle == HeapIdle /\ PagingIdle /\ DetectIdle /\ RetryIdle /\ PollIdle /\ DiffIdle /\ VerdictIdle /\ PlanIdle /\ RemoteIdle /\ StreamIdle

Init ==
    /\ ScanInit
    /\ NormIdle
    /\ JourneyIdle
    /\ StepIdle
    /\ VerifyIdle
    /\ AuthIdle
    /\ RestIdle

visitLocals == << elem_n, last_rank, counts, tracks >>

\* Pop without the status test of the loop.
PopAnyStatus ==
    /\ pc = "loop"
    /\ queue # << >>
    /\ visit_count < max_pages
    /\ LET url == HeapTop(queue)[3]
       IN  /\ queue' = HeapRest(queue)
           /\ IF url \notin DOMAIN nodes
              THEN UNCHANGED << nodes, pc, cur >>
              ELSE /\ nodes' = [nodes EXCEPT ![url].status = "visiting"]
                   /\ pc' = "goto"
                   /\ cur' = url
    /\ UNCHANGED << engine, base_url, max_pages, edges, visit_count, visitLocals >>
    /\ UNCHANGED notScanVars

\* Pop without the budget test of the loop.
PopPastBudget ==
    /\ pc = "loop"
    /\ queue # << >>
    /\ LET url == HeapTop(queue)[3]
       IN  /\ queue' = HeapRest(queue)
           /\ IF url \notin DOMAIN nodes \/ nodes[url].status # "discovered"
              THEN UNCHANGED << nodes, pc, cur >>
              ELSE /\ nodes' = [nodes EXCEPT ![url].status = "visiting"]
                   /\ pc' = "goto"
                   /\ cur' = url
    /\ UNCHANGED << engine, base_url, max_pages, edges, visit_count, visitLocals >>
    /\ UNCHANGED notScanVars

\* One iteration of the while loop up to the first suspension of the visit:
\* heappop, the status test, and node.status = "visiting".
Pop ==
    /\ pc = "loop"
    /\ queue # << >>
    /\ visit_count < max_pages
    /\ LET url == HeapTop(queue)[3]
       IN  /\ queue' = HeapRest(queue)
           /\ IF url \notin DOMAIN nodes \/ nodes[url].status # "discovered"
              THEN UNCHANGED << nodes, pc, cur >>
              ELSE /\ nodes' = [nodes EXCEPT ![url].status = "visiting"]
                   /\ pc' = "goto"
                   /\ cur' = url
    /\ UNCHANGED << engine, base_url, max_pages, edges, visit_count, visitLocals >>
    /\ UNCHANGED notScanVars

\* The loop condition fails: the scan emits scan_complete and returns.
LoopExit ==
    /\ pc = "loop"
    /\ ~(queue # << >> /\ visit_count < max_pages)
    /\ pc' = "done"
    /\ UNCHANGED << engine, base_url, max_pages, nodes, edges, queue, visit_count,
                    cur, visitLocals >>
    /\ UNCHANGED notScanVars

\* page.goto returned nothing or a status >= 400, or a call of the guarded
\* block raised: the node is failed and the visit returns.
NavFail ==
    /\ pc = "goto"
    /\ nodes' = [nodes EXCEPT ![cur].status = "failed"]
    /\ pc' = "loop"
    /\ cur' = NoUrl
    /\ UNCHANGED << engine, base_url, max_pages, edges, queue, visit_count, visitLocals >>
    /\ UNCHANGED notScanVars

\* The page loaded: the visit counts and goes on to the page's elements.
NavOk ==
    /\ pc = "goto"
    /\ visit_count' = visit_count + 1
    /\ pc' = IF engine = "explorer" THEN "interact" ELSE "journeys"
    /\ UNCHANGED << engine, base_url, max_pages, nodes, edges, queue, cur, visitLocals >>
    /\ UNCHANGED notScanVars

(***************************************************************************)
(* Discovery in SiteExplorer                                               *)
(***************************************************************************)

max_links == 15

max_forms == 3

max_dropdowns == 5

max_buttons == 5

max_searches == 1

\* new_links[:5] of _expand_menu
MenuLinkCap == 5

\* the frontier priority of a form destination
FormPriority == 7

\* the frontier priority of a search destination
SearchPriority == 6

\* beyond this depth a link's priority decays
DecayDepth == 3

Graph == [nodes |-> nodes, edges |-> edges, queue |-> queue]

\* Register without add_node.
RegisterEdgeOnly(g, from_url, url, depth, priority) ==
    [nodes |-> g.nodes,
     edges |-> add_edge(g.edges, from_url, url),
     queue |-> heappush(g.queue, << -priority, depth, url >>)]

\* add_node, add_edge and heappush for a destination found on the page at
\* from_url, as every discovery path does them.
Register(g, from_url, url, depth, priority) ==
    [nodes |-> add_node(g.nodes, url, depth),
     edges |-> add_edge(g.edges, from_url, url),
     queue |-> heappush(g.queue, << -priority, depth, url >>)]

\* SiteExplorer._follow_link
follow_link(g, node_url, el) ==
    LET url == NormalizeOf[el.href]
        depth == g.nodes[node_url].depth + 1
        priority == IF depth > DecayDepth THEN Max2(1, el.priority - 2) ELSE el.priority
    IN  IF url \notin DOMAIN g.nodes
        THEN Register(g, node_url, url, depth, priority)
        ELSE [g EXCEPT !.edges = add_edge(g.edges, node_url, url)]

\* The loop of _expand_menu over new_links[:5]
RECURSIVE MenuRegister(_, _, _)
MenuRegister(g, node_url, links) ==
    IF links = << >> THEN g
    ELSE MenuRegister(
            Register(g, node_url, NormalizeOf[Head(links).href],
                     g.nodes[node_url].depth + 1, Head(links).priority),
            node_url, Tail(links))

\* seq[:n]
Take(seq, n) == SubSeq(seq, 1, IF Len(seq) < n THEN Len(seq) ELSE n)


\* The element lists a re-discovery after a menu expansion may return, cut to
\* the anchors _expand_menu looks at; the menus of the modelled site hold
\* navigation links, and the discovery script keeps one element per type and
\* href.
MenuElements ==
    {el \in ElementsOf(ExplorerKinds) :
        el.type = "nav_link" /\ el.href # NoUrl}

MenuLists ==
    {l \in UNION {[1..k -> MenuElements] : k \in 1..MaxMenuLinks} :
        \A i, j \in DOMAIN l : l[i].href = l[j].href => i = j}

\* SiteExplorer._expand_menu when the click revealed new links
expand_menu(g, node_url, new_elements) ==
    LET IsNew(e) ==
            /\ e.type \in {"nav_link", "content_link"}
            /\ e.href # NoUrl
            /\ ExplorerIsAllowed(e.href)
            /\ NormalizeOf[e.href] \notin DOMAIN g.nodes
        new_links == SelectSeq(new_elements, IsNew)
    IN  MenuRegister(g, node_url, Take(new_links, MenuLinkCap))

\* The registration _test_form, _test_search and _click_button share: a
\* navigation to new_url was observed.
navigated(g, node_url, new_url, priority) ==
    LET norm == NormalizeOf[new_url]
    IN  IF ExplorerIsAllowed(norm) /\ norm \notin DOMAIN g.nodes
        THEN Register(g, node_url, norm, g.nodes[node_url].depth + 1, priority)
        ELSE g

SetGraph(g) == nodes' = g.nodes /\ edges' = g.edges /\ queue' = g.queue

\* The next element of the sorted catalog is el.
TakeElement(el) ==
    /\ elem_n < MaxElems
    /\ el.rank >= last_rank
    /\ elem_n' = elem_n + 1
    /\ last_rank' = el.rank

scanFixed == << engine, base_url, max_pages, visit_count, pc, cur, tracks >>

\* _interact_with_elements on a link: _follow_link when the href is admitted.
FollowLink ==
    /\ pc = "interact"
    /\ \E el \in ElementsOf(ExplorerKinds) :
        /\ el.type \in LinkTypes
        /\ TakeElement(el)
        /\ IF counts.link < max_links /\ el.href # NoUrl /\ ExplorerIsAllowed(el.href)
           THEN /\ SetGraph(follow_link(Graph, cur, el))
                /\ counts' = [counts EXCEPT !.link = @ + 1]
           ELSE UNCHANGED << nodes, edges, queue, counts >>
    /\ UNCHANGED scanFixed
    /\ UNCHANGED notScanVars

\* _interact_with_elements on a dropdown: _expand_menu, which registers the
\* links a re-discovery shows when the click revealed any.
ExpandMenu ==
    /\ pc = "interact"
    /\ \E el \in ElementsOf(ExplorerKinds) :
        /\ el.type = "dropdown"
        /\ TakeElement(el)
        /\ IF counts.dropdown < max_dropdowns
           THEN /\ counts' = [counts EXCEPT !.dropdown = @ + 1]
                /\ \/ UNCHANGED << nodes, edges, queue >>
                   \/ \E new_elements \in MenuLists :
                        SetGraph(expand_menu(Graph, cur, new_elements))
           ELSE UNCHANGED << nodes, edges, queue, counts >>
    /\ UNCHANGED scanFixed
    /\ UNCHANGED notScanVars

\* _interact_with_elements on a form: _test_form; the submit may navigate.
TestForm ==
    /\ pc = "interact"
    /\ \E el \in ElementsOf(ExplorerKinds) :
        /\ el.type = "form"
        /\ TakeElement(el)
        /\ IF counts.form < max_forms
           THEN /\ counts' = [counts EXCEPT !.form = @ + 1]
                /\ \/ UNCHANGED << nodes, edges, queue >>
                   \/ \E new_url \in Hrefs :
                        SetGraph(navigated(Graph, cur, new_url, FormPriority))
           ELSE UNCHANGED << nodes, edges, queue, counts >>
    /\ UNCHANGED scanFixed
    /\ UNCHANGED notScanVars

\* _interact_with_elements on a search box: _test_search, at most once a page.
TestSearch ==
    /\ pc = "interact"
    /\ \E el \in ElementsOf(ExplorerKinds) :
        /\ el.type = "search"
        /\ TakeElement(el)
        /\ IF counts.search < max_searches
           THEN /\ counts' = [counts EXCEPT !.search = @ + 1]
                /\ \/ UNCHANGED << nodes, edges, queue >>
                   \/ \E url_after \in Hrefs :
                        SetGraph(navigated(Graph, cur, url_after, SearchPriority))
           ELSE UNCHANGED << nodes, edges, queue, counts >>
    /\ UNCHANGED scanFixed
    /\ UNCHANGED notScanVars

\* _interact_with_elements on a button: _click_button.
ClickButton ==
    /\ pc = "interact"
    /\ \E el \in ElementsOf(ExplorerKinds) :
        /\ el.type = "cta"
        /\ TakeElement(el)
        /\ IF counts.button < max_buttons
           THEN /\ counts' = [counts EXCEPT !.button = @ + 1]
                /\ \/ UNCHANGED << nodes, edges, queue >>
                   \/ \E url_after \in Hrefs :
                        SetGraph(navigated(Graph, cur, url_after, el.priority))
           ELSE UNCHANGED << nodes, edges, queue, counts >>
    /\ UNCHANGED scanFixed
    /\ UNCHANGED notScanVars

\* The catalog is exhausted: _interact_with_elements returns.
InteractDone ==
    /\ pc = "interact"
    /\ pc' = "finish"
    /\ UNCHANGED << engine, base_url, max_pages, nodes, edges, queue, visit_count,
                    cur, visitLocals >>
    /\ UNCHANGED notScanVars

(***************************************************************************)
(* Discovery in QAAgent                                                    *)
(***************************************************************************)

\* the frontier priority of a destination reached in a journey
TrackPriority == 5

\* links _queue_links enqueues per page
QueueLinkCap == 8

\* QAAgent._track_navigation, with page.url = current
track_navigation(g, node_url, current) ==
    LET norm == NormalizeOf[current]
    IN  IF current # node_url /\ AgentIsAllowed(current) /\ norm \notin DOMAIN g.nodes
        THEN Register(g, node_url, norm, g.nodes[node_url].depth + 1, TrackPriority)
        ELSE g

\* One turn of the loop of QAAgent._queue_links; count is the number of
\* links enqueued so far.
queue_link(g, node_url, el, count) ==
    LET url == NormalizeOf[el.href]
        depth == g.nodes[node_url].depth + 1
        pri == el.priority - (IF depth > DecayDepth THEN 2 ELSE 0)
    IN  IF el.type \notin {"nav_link", "content_link"} THEN g
        ELSE IF el.href = NoUrl \/ ~AgentIsAllowed(el.href) THEN g
        ELSE IF url \in DOMAIN g.nodes
             THEN [g EXCEPT !.edges = add_edge(g.edges, node_url, url)]
        ELSE IF count >= QueueLinkCap THEN g
        ELSE Register(g, node_url, url, depth, Max2(1, pri))

\* A click, key press or nav step of a journey ended on the page `current`.
TrackNavigation ==
    /\ pc = "journeys"
    /\ tracks < MaxTracks
    /\ tracks' = tracks + 1
    /\ \E current \in Hrefs : SetGraph(track_navigation(Graph, cur, current))
    /\ UNCHANGED << engine, base_url, max_pages, visit_count, pc, cur,
                    elem_n, last_rank, counts >>
    /\ UNCHANGED notScanVars

\* The journeys of the page are over; _queue_links starts.
JourneysDone ==
    /\ pc = "journeys"
    /\ pc' = "queue_links"
    /\ UNCHANGED << engine, base_url, max_pages, nodes, edges, queue, visit_count,
                    cur, visitLocals >>
    /\ UNCHANGED notScanVars

\* _queue_links handles the next element of the catalog; counts.link is its
\* local count.
QueueLink ==
    /\ pc = "queue_links"
    /\ \E el \in ElementsOf(AgentKinds) :
        /\ TakeElement(el)
        /\ LET g == queue_link(Graph, cur, el, counts.link)
           IN  /\ SetGraph(g)
               /\ counts' = IF Len(g.queue) > Len(queue)
                            THEN [counts EXCEPT !.link = @ + 1] ELSE counts
    /\ UNCHANGED scanFixed
    /\ UNCHANGED notScanVars

\* _queue_links returns.
QueueLinksDone ==
    /\ pc = "queue_links"
    /\ pc' = "finish"
    /\ UNCHANGED << engine, base_url, max_pages, nodes, edges, queue, visit_count,
                    cur, visitLocals >>
    /\ UNCHANGED notScanVars

(***************************************************************************)
(* The end of a visit                                                      *)
(***************************************************************************)

\* Detectors, metrics and screenshot succeeded: node.status = "visited".
FinishVisit ==
    /\ pc = "finish"
    /\ nodes' = [nodes EXCEPT ![cur].status = "visited"]
    /\ pc' = "loop"
    /\ cur' = NoUrl
    /\ last_rank' = 0
    /\ counts' = ZeroCounts
    /\ UNCHANGED << engine, base_url, max_pages, edges, queue, visit_count,
                    elem_n, tracks >>
    /\ UNCHANGED notScanVars

\* PerformanceDetector.collect_metrics raised: nothing catches it, the
\* exception leaves _visit_page and the scheduler loop with it.
VisitRaises ==
    /\ pc = "finish"
    /\ pc' = "aborted"
    /\ UNCHANGED << engine, base_url, max_pages, nodes, edges, queue, visit_count,
                    cur, visitLocals >>
    /\ UNCHANGED notScanVars

Next ==
    \/ Pop
    \/ LoopExit
    \/ NavFail
    \/ NavOk
    \/ FollowLink
    \/ ExpandMenu
    \/ TestForm
    \/ TestSearch
    \/ ClickButton
    \/ InteractDone
    \/ TrackNavigation
    \/ JourneysDone
    \/ QueueLink
    \/ QueueLinksDone
    \/ FinishVisit
    \/ VisitRaises

Spec == Init /\ [][Next]_vars

(***************************************************************************)
(* The site graph and the page budget                                      *)
(***************************************************************************)

StatusOf(u) == nodes[u].status

\* C1: a node's status only moves discovered -> visiting -> visited or
\* failed: a node is never dropped, visited and failed are final, visiting is
\* entered from discovered only and left for visited or failed only, so no
\* node is marked visiting twice.
StatusMovesForward ==
    [][\A u \in DOMAIN nodes :
        /\ u \in DOMAIN nodes'
        /\ (StatusOf(u) = "discovered" =>
                nodes'[u].status \in {"discovered", "visiting"})
        /\ (StatusOf(u) = "visiting" =>
                nodes'[u].status \in {"visiting", "visited", "failed"})
        /\ (StatusOf(u) \in {"visited", "failed"} =>
                nodes'[u].status = StatusOf(u))]_vars

\* A second node is marked visiting after the visit of another one ended,
\* while the frontier still holds entries.
SecondVisitStarted ==
    /\ \E u \in DOMAIN nodes : StatusOf(u) \in {"visited", "failed"}
    /\ \E v \in DOMAIN nodes : StatusOf(v) = "visiting"
    /\ queue # << >>

FrontierUrls(q) == {q[i][3] : i \in 1..Len(q)}

\* C2: visit_count never exceeds max_pages, and once it has reached
\* max_pages no frontier entry is popped any more and every url left in the
\* frontier is a node in status discovered.
BudgetStopsScan ==
    [][/\ visit_count' <= max_pages'
       /\ (visit_count >= max_pages => Len(queue') >= Len(queue))
       /\ (visit_count' >= max_pages' =>
            \A u \in FrontierUrls(queue') :
                u \in DOMAIN nodes' /\ nodes'[u].status = "discovered")]_vars

\* C3 as stated: the graph never holds more nodes than max_pages.
NodesWithinBudget == Cardinality(DOMAIN nodes) <= max_pages

VisitedNodes == {u \in DOMAIN nodes : StatusOf(u) = "visited"}

\* C3: the nodes in status visited never outnumber max_pages; discovered
\* nodes are added beyond the budget.
VisitedWithinBudget == Cardinality(VisitedNodes) <= max_pages

\* The budget is used up by visited pages and the graph holds more nodes.
BudgetUsedUp ==
    /\ Cardinality(VisitedNodes) = max_pages
    /\ Cardinality(DOMAIN nodes) > max_pages

\* C4: both endpoints of every edge are keys of the node map.
NoDanglingEdge ==
    \A e \in edges : e[1] \in DOMAIN nodes /\ e[2] \in DOMAIN nodes

\* Edges of both kinds were recorded: one to a node created with it and one
\* to a node the graph held already (the seed).
EdgesOfBothKinds ==
    /\ \E e \in edges : e[2] = base_url
    /\ \E e \in edges : e[2] # base_url /\ nodes[e[2]].depth = nodes[e[1]].depth + 1

\* C5: every key of the node map, the seed included, equals its canonical
\* form, and no two nodes share a canonical form: a link that canonicalizes
\* to the start page maps to the seed node.
CanonicalNodeKeys ==
    \A u \in DOMAIN nodes :
        /\ NormalizeOf[u] = u
        /\ \A v \in DOMAIN nodes : NormalizeOf[u] = NormalizeOf[v] => u = v

(***************************************************************************)
(* Canonicalization runs: _normalize applied to bounded urls               *)
(***************************************************************************)

\* characters after the host and the first "/" of an input url
MaxUrlLen == 4

\* key=value parameters of an input query
MaxParams == 2

UrlChars == {"/", ";", "?", "&", "=", "a", "1"}

Strings(chars, n) == UNION {[1..k -> chars] : k \in 0..n}

\* the urls of one host, as the browser reports them
UrlInputs == {<< "h", "/" >> \o t : t \in Strings(UrlChars, MaxUrlLen)}

ParamFields == {<< k, "=", v >> : k \in {"a", "b"}, v \in {"1", "2"}}

ParamLists == UNION {[1..k -> ParamFields] : k \in 1..MaxParams}

Permuted(l, p) == [i \in DOMAIN l |-> l[p[i]]]

QueryUrl(l) == << "h", "/", "p", "?" >> \o JoinAmp(l)

\* a url and the same url with its parameters in another order
PermutedPairs ==
    UNION {{<< QueryUrl(l), QueryUrl(Permuted(l, p)) >> :
                p \in Permutations(DOMAIN l)} : l \in ParamLists}

ScanIdle ==
    /\ engine = "none"
    /\ base_url = NoUrl
    /\ max_pages = 0
    /\ nodes = << >>
    /\ edges = {}
    /\ queue = << >>
    /\ visit_count = 0
    /\ pc = "idle"
    /\ cur = NoUrl
    /\ elem_n = 0
    /\ last_rank = 0
    /\ counts = ZeroCounts
    /\ tracks = 0

InitNorm ==
    /\ ScanIdle
    /\ JourneyIdle
    /\ StepIdle
    /\ VerifyIdle
    /\ AuthIdle
    /\ RestIdle
    /\ norm_in \in {<< u >> : u \in UrlInputs} \cup PermutedPairs
    /\ norm_out = << >>

\* _normalize on the url given
NormalizeFirst ==
    /\ norm_in # << >>
    /\ norm_out = << >>
    /\ norm_out' = << Normalize(norm_in[1]) >>
    /\ UNCHANGED norm_in
    /\ UNCHANGED notNormVars

\* _normalize on its own result
NormalizeAgain ==
    /\ Len(norm_in) = 1
    /\ Len(norm_out) = 1
    /\ norm_out' = Append(norm_out, Normalize(norm_out[1]))
    /\ UNCHANGED norm_in
    /\ UNCHANGED notNormVars

\* _normalize on the url with the parameters reordered
NormalizeOther ==
    /\ Len(norm_in) = 2
    /\ Len(norm_out) = 1
    /\ norm_out' = Append(norm_out, Normalize(norm_in[2]))
    /\ UNCHANGED norm_in
    /\ UNCHANGED notNormVars

NextNorm == NormalizeFirst \/ NormalizeAgain \/ NormalizeOther

SpecNorm == InitNorm /\ [][NextNorm]_vars

\* C6: _normalize is idempotent: applied to its own result it returns that
\* result.
NormalizeIdempotent ==
    (Len(norm_in) = 1 /\ Len(norm_out) = 2) => norm_out[2] = norm_out[1]

\* C7: _normalize gives the same result for a url and for the url with its
\* key=value parameters in any other order.
NormalizeOrderFree ==
    (Len(norm_in) = 2 /\ Len(norm_out) = 2) => norm_out[2] = norm_out[1]

(***************************************************************************)
(* Journeys: the journey loop of QAAgent._visit_and_test with              *)
(* _execute_journey, and FlowRunner.execute_flows with _execute_flow       *)
(***************************************************************************)

\* steps a journey or flow plans
MaxSteps == 2

\* results one run records
MaxFlows == 2

\* a journey of this priority or more is retried when it fails
CriticalPriority == 9

JourneyPriorities == {5, CriticalPriority}

\* What QAAgent._execute_step can return: passed, failed (_fail_step, an
\* exception), blocked (a disabled element), and with the AI verifier any
\* status the model answers; inconclusive stands for the answers other than
\* passed, failed and blocked.
StepStatuses(ai) ==
    IF ai THEN {"passed", "failed", "blocked", "inconclusive"}
    ELSE {"passed", "failed", "blocked"}

AllSteps(steps, status) == \A i \in DOMAIN steps : steps[i] = status

AnyStep(steps, status) == \E i \in DOMAIN steps : steps[i] = status

\* A journey status that never is partial.
journey_status_no_partial(steps) ==
    IF AnyStep(steps, "blocked") THEN "blocked"
    ELSE IF AnyStep(steps, "failed") THEN "failed"
    ELSE "passed"

\* the status _execute_journey computes from its step results
journey_status(steps) ==
    IF AllSteps(steps, "passed") THEN "passed"
    ELSE IF AnyStep(steps, "blocked") THEN "blocked"
    ELSE IF AnyStep(steps, "failed") THEN "failed"
    ELSE "partial"

\* A step loop no status ends.
stops_never(status) == FALSE

\* A step loop only a failed step ends.
stops_on_failed(status) == status = "failed"

\* the break of the step loop of _execute_journey
stops_journey(status) == status \in {"failed", "blocked"}

\* the step loop of _execute_journey has ended
StepsOver ==
    \/ Len(step_results) = journey.nsteps
    \/ step_results # << >> /\ stops_journey(step_results[Len(step_results)])

InitJourney ==
    /\ ScanIdle
    /\ NormIdle
    /\ StepIdle
    /\ VerifyIdle
    /\ AuthIdle
    /\ RestIdle
    /\ runner \in {"agent", "flow_runner"}
    /\ ai_available \in BOOLEAN
    /\ auth_logged_in \in BOOLEAN
    /\ completed_flows = << >>
    /\ jpc = "next"
    /\ journey = NoJourney
    /\ step_results = << >>
    /\ flow_result = NoResult
    /\ retry_result = NoResult
    /\ flow_status = "none"

journeyFixed == << runner, ai_available, auth_logged_in >>

\* A gate that lets every journey through.
never_gated(requires_auth, logged_in) == FALSE

\* if journey.get("requires_auth") and not self._state.auth_logged_in
auth_gated(requires_auth, logged_in) == requires_auth /\ ~logged_in

\* The head of the journey loop: a journey that requires authentication is
\* recorded as blocked while nobody is logged in; any other is handed to
\* _execute_journey, which returns None for a journey without steps.
NextJourney ==
    /\ runner = "agent"
    /\ jpc = "next"
    /\ Len(completed_flows) < MaxFlows
    /\ \E requires_auth \in BOOLEAN, priority \in JourneyPriorities, n \in 0..MaxSteps :
        /\ journey' = [priority |-> priority, nsteps |-> n,
                        requires_auth |-> requires_auth]
        /\ IF auth_gated(requires_auth, auth_logged_in)
           THEN /\ completed_flows' =
                    Append(completed_flows, FlowResult("blocked", << >>, "auth_required"))
                /\ UNCHANGED << jpc, step_results, flow_result, retry_result >>
           ELSE /\ flow_result' = NoResult
                /\ retry_result' = NoResult
                /\ step_results' = << >>
                /\ jpc' = IF n = 0 THEN "next" ELSE "steps"
                /\ UNCHANGED completed_flows
    /\ UNCHANGED << journeyFixed, flow_status >>
    /\ UNCHANGED notJourneyVars

\* One round of the step loop of _execute_journey
ExecuteStep ==
    /\ jpc \in {"steps", "retry"}
    /\ ~StepsOver
    /\ \E status \in StepStatuses(ai_available) :
        step_results' = Append(step_results, status)
    /\ UNCHANGED << journeyFixed, completed_flows, jpc, journey, flow_result,
                    retry_result, flow_status >>
    /\ UNCHANGED notJourneyVars

\* _execute_journey returns the FlowResult of the journey.
ReturnJourney ==
    /\ jpc = "steps"
    /\ StepsOver
    /\ flow_result' = FlowResult(journey_status(step_results), step_results, "none")
    /\ jpc' = "returned"
    /\ UNCHANGED << journeyFixed, completed_flows, journey, step_results,
                    retry_result, flow_status >>
    /\ UNCHANGED notJourneyVars

\* A test every priority passes.
any_priority(priority) == TRUE

\* journey.get("priority", 0) >= 9
is_critical(priority) == priority >= CriticalPriority

\* The caller: a failed critical journey is investigated and, when the
\* investigation names retry steps, run again; any other result is recorded.
RecordJourney ==
    /\ jpc = "returned"
    /\ \E n \in 0..MaxSteps :
        IF /\ flow_result.status = "failed"
           /\ is_critical(journey.priority)
           /\ ai_available
           /\ n > 0
        THEN /\ jpc' = "retry"
             /\ journey' = [journey EXCEPT !.nsteps = n]
             /\ step_results' = << >>
             /\ UNCHANGED completed_flows
        ELSE /\ completed_flows' = Append(completed_flows, flow_result)
             /\ jpc' = "next"
             /\ UNCHANGED << journey, step_results >>
    /\ UNCHANGED << journeyFixed, flow_result, retry_result, flow_status >>
    /\ UNCHANGED notJourneyVars

\* The retry returned: its result replaces the first one when it passed, and
\* the result is recorded.
ReturnRetry ==
    /\ jpc = "retry"
    /\ StepsOver
    /\ LET result == FlowResult(journey_status(step_results), step_results, "none")
           kept == IF result.status = "passed" THEN result ELSE flow_result
       IN  /\ retry_result' = result
           /\ flow_result' = kept
           /\ completed_flows' = Append(completed_flows, kept)
    /\ jpc' = "next"
    /\ UNCHANGED << journeyFixed, journey, step_results, flow_status >>
    /\ UNCHANGED notJourneyVars

\* FlowRunner.execute_flows takes the next flow.
StartFlow ==
    /\ runner = "flow_runner"
    /\ jpc = "next"
    /\ Len(completed_flows) < MaxFlows
    /\ \E n \in 0..MaxSteps :
        journey' = [priority |-> 0, nsteps |-> n, requires_auth |-> FALSE]
    /\ step_results' = << >>
    /\ flow_status' = "passed"
    /\ jpc' = "flow"
    /\ UNCHANGED << journeyFixed, completed_flows, flow_result, retry_result >>
    /\ UNCHANGED notJourneyVars

\* One round of the step loop of _execute_flow: the step passes, or it
\* fails and the AI recovers (the step becomes skipped, the flow partial),
\* or it fails and the flow is failed and left.
FlowStep ==
    /\ jpc = "flow"
    /\ Len(step_results) < journey.nsteps
    /\ flow_status # "failed"
    /\ \E status \in {"passed", "failed"}, recovers \in BOOLEAN :
        IF status = "passed"
        THEN /\ step_results' = Append(step_results, "passed")
             /\ UNCHANGED flow_status
        ELSE IF ai_available /\ recovers
        THEN /\ step_results' = Append(step_results, "skipped")
             /\ flow_status' = "partial"
        ELSE /\ step_results' = Append(step_results, "failed")
             /\ flow_status' = "failed"
    /\ UNCHANGED << journeyFixed, completed_flows, jpc, journey, flow_result,
                    retry_result >>
    /\ UNCHANGED notJourneyVars

\* _execute_flow returns and execute_flows appends the result.
FinishFlow ==
    /\ jpc = "flow"
    /\ Len(step_results) = journey.nsteps \/ flow_status = "failed"
    /\ completed_flows' =
            Append(completed_flows, FlowResult(flow_status, step_results, "none"))
    /\ jpc' = "next"
    /\ UNCHANGED << journeyFixed, journey, step_results, flow_result, retry_result,
                    flow_status >>
    /\ UNCHANGED notJourneyVars

NextJourneys ==
    \/ NextJourney
    \/ ExecuteStep
    \/ ReturnJourney
    \/ RecordJourney
    \/ ReturnRetry
    \/ StartFlow
    \/ FlowStep
    \/ FinishFlow

SpecJourney == InitJourney /\ [][NextJourneys]_vars

(***************************************************************************)
(* Journey results                                                         *)
(***************************************************************************)

RecordedResults == Range(completed_flows)

\* C8 as stated: every recorded result is passed exactly when every one of
\* its step results is passed.
PassedIffAllStepsPassed ==
    \A r \in RecordedResults : r.status = "passed" <=> AllSteps(r.steps, "passed")

\* C8: every recorded result is passed exactly when every one of its step
\* results is passed, except the result recorded for a journey that was not
\* run because it requires authentication: that one has no step results and
\* is blocked.  A result with a failed step is never passed.
PassedIffStepsPassedOrAuthBlocked ==
    \A r \in RecordedResults :
        IF r.blocked_reason = "auth_required"
        THEN r.status = "blocked" /\ r.steps = << >>
        ELSE r.status = "passed" <=> AllSteps(r.steps, "passed")

\* A journey refused for authentication and a journey that ran, with a step
\* that is neither passed nor failed, are both recorded.
AuthBlockedAndRunRecorded ==
    /\ runner = "agent"
    /\ \E r \in RecordedResults : r.blocked_reason = "auth_required"
    /\ \E r \in RecordedResults :
        /\ Len(r.steps) = MaxSteps
        /\ AnyStep(r.steps, "inconclusive")
        /\ r.status # "passed"

\* the precedence of the statuses: failed, then blocked, then passed when
\* every step passed, partial otherwise
PrecedenceStatus(steps) ==
    IF AnyStep(steps, "failed") THEN "failed"
    ELSE IF AnyStep(steps, "blocked") THEN "blocked"
    ELSE IF AllSteps(steps, "passed") THEN "passed"
    ELSE "partial"

JourneyResults ==
    {r \in RecordedResults \cup {flow_result, retry_result} :
        r # NoResult /\ r.blocked_reason = "none"}

\* C9: every result _execute_journey returns has the status the precedence
\* gives for its step results: failed with a failed step, else blocked with
\* a blocked step, else passed when every step passed, else partial.
AggregatesByPrecedence ==
    runner = "agent" =>
        \A r \in JourneyResults : r.status = PrecedenceStatus(r.steps)

\* A partial journey is recorded and a journey that failed after a step
\* that did not pass has just returned.
PartialAndFailedReturned ==
    /\ \E r \in RecordedResults : r.status = "partial"
    /\ jpc = "returned"
    /\ flow_result.status = "failed"
    /\ Len(flow_result.steps) >= 2
    /\ flow_result.steps[1] = "inconclusive"

\* C10: in a journey of QAAgent a failed or blocked step result is the last
\* one: no step is executed after it.
FailedOrBlockedStepIsLast ==
    runner = "agent" =>
        \A steps \in {step_results} \cup {r.steps : r \in JourneyResults} :
            \A i \in DOMAIN steps :
                steps[i] \in {"failed", "blocked"} => i = Len(steps)

\* A journey returned after a blocked second step with a planned step left
\* unexecuted, or after a failed one.
JourneyCutShort ==
    /\ jpc = "returned"
    /\ Len(flow_result.steps) >= 1
    /\ Len(flow_result.steps) < journey.nsteps
    /\ flow_result.steps[Len(flow_result.steps)] = "blocked"
    /\ \E r \in RecordedResults :
        r.steps # << >> /\ r.steps[Len(r.steps)] = "failed"

\* C17: when QAAgent reaches a journey that requires authentication while
\* nobody is logged in, no step of it is executed and exactly one result,
\* of status blocked and without steps, is recorded for it.
AuthGatedJourneyIsBlocked ==
    [][(/\ runner = "agent"
        /\ jpc = "next"
        /\ ~auth_logged_in
        /\ journey'.requires_auth
        /\ << completed_flows, journey, jpc >>' # << completed_flows, journey, jpc >>) =>
        /\ completed_flows' =
            Append(completed_flows, FlowResult("blocked", << >>, "auth_required"))
        /\ jpc' = "next"
        /\ step_results' = step_results]_vars

\* Two journeys of several steps that require authentication have been
\* recorded as blocked while nobody is logged in.
TwoGatedJourneysBlocked ==
    /\ runner = "agent"
    /\ ~auth_logged_in
    /\ jpc = "next"
    /\ journey.requires_auth
    /\ journey.nsteps = MaxSteps
    /\ Len(completed_flows) = 2
    /\ \A i \in DOMAIN completed_flows : completed_flows[i].status = "blocked"

(***************************************************************************)
(* One step of a journey: QAAgent._execute_step for the actions "type"     *)
(* and "click", with the element lookup of QAAgent._get_element.  The page *)
(* is what the lookups of _get_element observe: the outcome of the         *)
(* catalog-indexed selector, and the buttons and inputs of the page in     *)
(* document order.                                                         *)
(***************************************************************************)

\* the most buttons, and the most inputs, of a page
MaxCandidates == 2

\* What the first tier of _get_element observes of the catalog index:
\*   out_of_range      el_idx is no index of the catalog
\*   stale             query_selector returns None
\*   raises            query_selector or is_visible raises
\*   hidden            the element is not visible
\*   disabled          the element is visible and is_disabled is true
\*   disabled_unknown  the element is visible and is_disabled raises
\*   enabled           the element is visible and not disabled
IndexTargets ==
    {"out_of_range", "stale", "raises", "hidden", "disabled",
     "disabled_unknown", "enabled"}

\* What the text tier observes of one button or link: no_match also stands
\* for a text_content that raises.
ButtonStates == {"no_match", "hidden", "disabled", "disabled_unknown", "enabled"}

\* What the placeholder tier observes of one input: the tier never asks
\* whether the input is disabled.
InputStates == {"no_match", "hidden", "disabled", "enabled"}

\* the lists over a set of at most MaxCandidates elements
Candidates(S) == UNION {[1..n -> S] : n \in 0..MaxCandidates}

\* the element an observation of the text tier returns
ElementOf(via, seen) ==
    [via |-> via,
     state |-> IF seen = "disabled_unknown" THEN "unknown" ELSE seen]

\* tier 1 of _get_element: the catalog-indexed selector, visible and not
\* disabled (a raising is_disabled counts as not disabled)
IndexElement(target) ==
    IF target \in {"enabled", "disabled_unknown"}
    THEN ElementOf("index", target)
    ELSE NoElement

\* the first element of a list whose observation is among the returned ones
FirstOf(via, list, returned) ==
    IF \E i \in DOMAIN list : list[i] \in returned
    THEN ElementOf(via, list[MinOf({i \in DOMAIN list : list[i] \in returned})])
    ELSE NoElement

\* tier 2 of _get_element: the first visible button whose text matches and
\* that is not seen disabled, else the first visible input whose
\* placeholder matches
TextElement(btns, inps) ==
    IF FirstOf("text", btns, {"enabled", "disabled_unknown"}) # NoElement
    THEN FirstOf("text", btns, {"enabled", "disabled_unknown"})
    ELSE FirstOf("placeholder", inps, {"enabled", "disabled"})

\* QAAgent._get_element
get_element(target, text, btns, inps) ==
    IF IndexElement(target) # NoElement THEN IndexElement(target)
    ELSE IF text THEN TextElement(btns, inps)
    ELSE NoElement

\* The messages of the exceptions a step can raise.  NameErrorText is the
\* NameError of the call of _fail_step, a name the module neither defines
\* nor imports.
NameErrorText == "name '_fail_step' is not defined"

NotEnabledText == "element is not enabled"

TimeoutText == "Timeout 30000ms exceeded"

TimeoutNotEnabledText == "Timeout 30000ms exceeded: element is not enabled"

DetachedText == "Element is not attached to the DOM"

\* "disabled" in err_str.lower() or "not enabled" in err_str.lower()
MentionsDisabled(msg) == msg \in {NotEnabledText, TimeoutNotEnabledText}

\* "timeout" in err_str.lower()
MentionsTimeout(msg) == msg \in {TimeoutText, TimeoutNotEnabledText}

\* the except clause of _execute_step
ExceptionResult(msg) ==
    IF MentionsDisabled(msg)
    THEN [status |-> "blocked", error |-> "Element not interactable"]
    ELSE IF MentionsTimeout(msg)
    THEN [status |-> "failed", error |-> "Timed out"]
    ELSE [status |-> "failed", error |-> msg]

\* what fill or click raises on an element, by the state of the element
ActionRaises(state) ==
    IF state = "enabled" THEN {TimeoutText, DetachedText}
    ELSE {NotEnabledText, TimeoutNotEnabledText, TimeoutText}

InitStep ==
    /\ ScanIdle
    /\ NormIdle
    /\ JourneyIdle
    /\ VerifyIdle
    /\ AuthIdle
    /\ RestIdle
    /\ step_action \in {"type", "click"}
    /\ index_target \in IndexTargets
    /\ text_contains \in BOOLEAN
    /\ buttons \in IF text_contains THEN Candidates(ButtonStates) ELSE {<< >>}
    /\ inputs \in IF text_contains THEN Candidates(InputStates) ELSE {<< >>}
    /\ check_text \in BOOLEAN
    /\ step_ai \in BOOLEAN
    /\ spc = "start"
    /\ step_el = NoElement
    /\ step_result = NoStepResult

stepFixed ==
    << step_action, index_target, text_contains, buttons, inputs, check_text,
       step_ai >>

\* el = await self._get_element(page, el_idx, elements, text_contains)
GetElement ==
    /\ spc = "start"
    /\ step_el' = get_element(index_target, text_contains, buttons, inputs)
    /\ spc' = "got"
    /\ UNCHANGED << stepFixed, step_result >>
    /\ UNCHANGED notStepVars

\* if not el: return _fail_step(...): the name is undefined, the NameError
\* is raised inside the try and handled by the except clause
ElementNotFound ==
    /\ spc = "got"
    /\ step_el = NoElement
    /\ step_result' = ExceptionResult(NameErrorText)
    /\ spc' = "done"
    /\ UNCHANGED << stepFixed, step_el >>
    /\ UNCHANGED notStepVars

\* el.fill(value) or el.click() returns
ActionDone ==
    /\ spc = "got"
    /\ step_el # NoElement
    /\ step_el.state \in {"enabled", "unknown"}
    /\ spc' = "acted"
    /\ UNCHANGED << stepFixed, step_el, step_result >>
    /\ UNCHANGED notStepVars

\* el.fill(value) or el.click() raises
ActionFails ==
    /\ spc = "got"
    /\ step_el # NoElement
    /\ \E msg \in ActionRaises(step_el.state) :
        step_result' = ExceptionResult(msg)
    /\ spc' = "done"
    /\ UNCHANGED << stepFixed, step_el >>
    /\ UNCHANGED notStepVars

\* if self._ai.available and check_text: the status is the one of verify_step
VerifyStep ==
    /\ spc = "acted"
    /\ step_ai /\ check_text
    /\ \E status \in StepStatuses(TRUE) :
        step_result' = [status |-> status, error |-> "reason"]
    /\ spc' = "done"
    /\ UNCHANGED << stepFixed, step_el >>
    /\ UNCHANGED notStepVars

\* no verification: the status stays "passed"
StepCompleted ==
    /\ spc = "acted"
    /\ ~(step_ai /\ check_text)
    /\ step_result' =
        [status |-> "passed",
         error |-> IF check_text THEN "none" ELSE "Action completed"]
    /\ spc' = "done"
    /\ UNCHANGED << stepFixed, step_el >>
    /\ UNCHANGED notStepVars

NextStep ==
    \/ GetElement
    \/ ElementNotFound
    \/ ActionDone
    \/ ActionFails
    \/ VerifyStep
    \/ StepCompleted

SpecStep == InitStep /\ [][NextStep]_vars

\* C11: a type or click step whose catalog-indexed element is present and
\* visible but disabled returns the status blocked, never failed or passed.
DisabledTargetIsBlocked ==
    (spc = "done" /\ index_target = "disabled") =>
        step_result.status = "blocked"

\* C12: a type or click step whose catalog-indexed selector no longer
\* resolves either resolves through the free-text fallback or returns the
\* status failed with an element-not-found reason.
StaleTargetFallsBackOrNotFound ==
    (spc = "done" /\ index_target = "stale") =>
        \/ step_el.via \in {"text", "placeholder"}
        \/ /\ step_result.status = "failed"
           /\ step_result.error \in {"Input not found", "Element not found"}

(***************************************************************************)
(* StateVerifier.compare on bounded snapshots.  A snapshot is what         *)
(* take_snapshot builds: the url, the cookies (their names), the two       *)
(* storages, the accumulated console and network errors, and the hash of   *)
(* the DOM.                                                                *)
(***************************************************************************)

\* the most cookies of a snapshot
MaxCookies == 2

\* the most console errors, and the most network errors, of a snapshot
MaxErrors == 2

PageUrls == {"http://h.c/", "http://h.c/a"}

CookieNames == {"sid", "csrf"}

StorageKeys == {"k"}

StorageValues == {"a", "b"}

ConsoleErrors == {"TypeError", "Uncaught: x"}

NetworkErrors ==
    {[url |-> "http://h.c/api", status |-> st, method |-> "GET"] :
        st \in {404, 500}}

DomHashes == {"", "1"}

\* the lists of at most n elements of S
ListsOf(S, n) == UNION {[1..k -> S] : k \in 0..n}

\* a browser context holds one cookie per name
CookieLists ==
    {l \in ListsOf(CookieNames, MaxCookies) :
        \A i, j \in DOMAIN l : l[i] = l[j] => i = j}

StorageMaps == UNION {[K -> StorageValues] : K \in SUBSET StorageKeys}

Snapshots ==
    [url : PageUrls,
     cookies : CookieLists,
     local_storage : StorageMaps,
     session_storage : StorageMaps,
     console_errors : ListsOf(ConsoleErrors, MaxErrors),
     network_errors : ListsOf(NetworkErrors, MaxErrors),
     dom_hash : DomHashes]

\* the snapshots that differ from s in at most one field
Variants(s) ==
    {s}
    \cup {[s EXCEPT !.url = v] : v \in PageUrls}
    \cup {[s EXCEPT !.cookies = v] : v \in CookieLists}
    \cup {[s EXCEPT !.local_storage = v] : v \in StorageMaps}
    \cup {[s EXCEPT !.session_storage = v] : v \in StorageMaps}
    \cup {[s EXCEPT !.console_errors = v] : v \in ListsOf(ConsoleErrors, MaxErrors)}
    \cup {[s EXCEPT !.network_errors = v] : v \in ListsOf(NetworkErrors, MaxErrors)}
    \cup {[s EXCEPT !.dom_hash = v] : v \in DomHashes}

\* {c["name"] for c in snapshot.cookies}
CookieSet(snapshot) == Range(snapshot.cookies)

\* the (url, status) keys of the network errors of a snapshot
NetKeys(snapshot) ==
    {<< e.url, e.status >> : e \in Range(snapshot.network_errors)}

\* the keys of after.local_storage that before.local_storage lacks, with
\* their values in after
StorageChanges(before, after) ==
    [key \in DOMAIN after.local_storage \ DOMAIN before.local_storage |->
        after.local_storage[key]]

\* compare that reports every console error of the after snapshot as new.
compare_all_errors(before, after) ==
    [cookies_added |-> CookieSet(after) \ CookieSet(before),
     cookies_removed |-> CookieSet(before) \ CookieSet(after),
     storage_changes |-> StorageChanges(before, after),
     new_console_errors |-> after.console_errors,
     new_network_errors |->
        SelectSeq(after.network_errors,
                  LAMBDA e : << e.url, e.status >> \notin NetKeys(before)),
     url_changed |-> before.url # after.url,
     dom_changed |-> before.dom_hash # after.dom_hash]

\* StateVerifier.compare: list(a - b) has no order of its own and is held
\* as the set
compare(before, after) ==
    [cookies_added |-> CookieSet(after) \ CookieSet(before),
     cookies_removed |-> CookieSet(before) \ CookieSet(after),
     storage_changes |-> StorageChanges(before, after),
     new_console_errors |->
        SelectSeq(after.console_errors,
                  LAMBDA e : e \notin Range(before.console_errors)),
     new_network_errors |->
        SelectSeq(after.network_errors,
                  LAMBDA e : << e.url, e.status >> \notin NetKeys(before)),
     url_changed |-> before.url # after.url,
     dom_changed |-> before.dom_hash # after.dom_hash]

InitVerify ==
    /\ ScanIdle
    /\ NormIdle
    /\ JourneyIdle
    /\ StepIdle
    /\ AuthIdle
    /\ RestIdle
    /\ snap_before \in Snapshots
    /\ snap_after \in Variants(snap_before)
    /\ state_change = EmptyChange
    /\ vpc = "start"

\* change = verifier.compare(before, after)
Compare ==
    /\ vpc = "start"
    /\ state_change' = compare(snap_before, snap_after)
    /\ vpc' = "compared"
    /\ UNCHANGED << snap_before, snap_after >>
    /\ UNCHANGED notVerifyVars

NextVerify ==
    \/ Compare

SpecVerify == InitVerify /\ [][NextVerify]_vars

\* C13: compare(s, s) reports nothing: no cookie added or removed, no
\* storage change, no new console or network error, url_changed and
\* dom_changed both false.
CompareSameIsEmpty ==
    (vpc = "compared" /\ snap_before = snap_after) =>
        /\ state_change.cookies_added = {}
        /\ state_change.cookies_removed = {}
        /\ DOMAIN state_change.storage_changes = {}
        /\ state_change.new_console_errors = << >>
        /\ state_change.new_network_errors = << >>
        /\ ~state_change.url_changed
        /\ ~state_change.dom_changed

\* A snapshot with cookies, stored values, a repeated console error and
\* network errors has been compared with itself.
ComparedFullSnapshotWithItself ==
    /\ vpc = "compared"
    /\ snap_before = snap_after
    /\ Len(snap_before.cookies) = MaxCookies
    /\ DOMAIN snap_before.local_storage # {}
    /\ Len(snap_before.console_errors) >= 2
    /\ snap_before.console_errors[1] = snap_before.console_errors[2]
    /\ snap_before.network_errors # << >>
    /\ snap_before.dom_hash # ""

(***************************************************************************)
(* The AuthHandler of one scan: check_and_handle_login as QAAgent calls it *)
(* after each navigation, the headful login, and the lane of the backend   *)
(* that stores the cookies of the remote browser and sets the event of the *)
(* scan.  A domain is what _extract_domain returns, the netloc of the url. *)
(***************************************************************************)

\* the most login walls one scan detects
MaxWalls == 3

AuthDomains == {"h.c", "s.h.c"}

\* the scan of the handler, and another scan of the same backend
ScanId == "scan1"

OtherScanId == "scan2"

\* the cookie lists a login can leave
CookieJars == CookieLists

\* _auth_cookies when the handler is constructed: empty, or holding the
\* cookies of another scan
StoresAtStart == {<< >>, [id \in {OtherScanId} |-> << "sid" >>]}

\* self._cookie_store = auth_cookie_store or {}: an empty dict is false, so
\* the handler keeps the dict it is given only when that dict is not empty
KeepsStore(store) == DOMAIN store # {}

\* the dict the handler reads: the one of the backend, or its own empty one
CookieStore == IF cookie_store_shared THEN auth_cookies ELSE << >>

\* self._cookie_store.get(self._scan_id, [])
StoredCookies(store) == IF ScanId \in DOMAIN store THEN store[ScanId] ELSE << >>

\* _auth_cookies[scan_id] = cookies
StoreCookies(store, cookies) ==
    [id \in DOMAIN store \cup {ScanId} |->
        IF id = ScanId THEN cookies ELSE store[id]]

AuthResult(success, method, injected) ==
    [success |-> success, method |-> method, cookies_injected |-> injected]

\* the test of _auth_attempted that never finds the domain.
NeverAttempted(attempted, domain) == FALSE

\* if domain in self._auth_attempted
Attempted(attempted, domain) == domain \in attempted

HandoffsOf(domain) == IF domain \in DOMAIN handoffs THEN handoffs[domain] ELSE 0

\* one more hand-off started for the domain
CountHandoff(domain) ==
    [d \in DOMAIN handoffs \cup {domain} |->
        IF d = domain THEN HandoffsOf(domain) + 1 ELSE handoffs[d]]

InitAuth ==
    /\ ScanIdle
    /\ NormIdle
    /\ JourneyIdle
    /\ StepIdle
    /\ VerifyIdle
    /\ RestIdle
    /\ pw \in BOOLEAN
    /\ headless_ctx \in BOOLEAN
    /\ cookie_event \in BOOLEAN
    /\ event_is_set = FALSE
    /\ auth_cookies \in StoresAtStart
    /\ cookie_store_shared = KeepsStore(auth_cookies)
    /\ auth_attempted = {}
    /\ cached_cookies = << >>
    /\ ctx_cookies = {}
    /\ apc = "idle"
    /\ wall_domain = "none"
    /\ auth_result = NoAuthResult
    /\ handoffs = << >>
    /\ walls = 0

authFixed == << pw, headless_ctx, cookie_event, cookie_store_shared >>

journeyRest ==
    << runner, ai_available, completed_flows, jpc, journey, step_results,
       flow_result, retry_result, flow_status >>

notAuthVars ==
    << scanVars, normVars, journeyRest, stepVars, verifyVars, restVars >>

\* check_and_handle_login returns a result and QAAgent._visit_and_test
\* stores its success in auth_logged_in
Returns(result) ==
    /\ auth_result' = result
    /\ auth_logged_in' = result.success
    /\ apc' = "idle"

\* the page is no login wall, or the detection script raises: None
NoLoginWall ==
    /\ apc = "idle"
    /\ auth_result' = NoAuthResult
    /\ UNCHANGED << authFixed, event_is_set, auth_cookies, auth_attempted,
                    cached_cookies, ctx_cookies, apc, wall_domain, handoffs,
                    walls, auth_logged_in >>
    /\ UNCHANGED notAuthVars

\* a login wall on a domain already attempted: skipped
AlreadyAttempted ==
    /\ apc = "idle"
    /\ walls < MaxWalls
    /\ \E domain \in AuthDomains :
        /\ Attempted(auth_attempted, domain)
        /\ wall_domain' = domain
    /\ walls' = walls + 1
    /\ Returns(AuthResult(FALSE, "skipped", 0))
    /\ UNCHANGED << authFixed, event_is_set, auth_cookies, auth_attempted,
                    cached_cookies, ctx_cookies, handoffs >>
    /\ UNCHANGED notAuthVars

\* a login wall on a new domain while cookies are cached:
\* _inject_cached_cookies, whose add_cookies or reload can raise
InjectCached ==
    /\ apc = "idle"
    /\ walls < MaxWalls
    /\ cached_cookies # << >>
    /\ \E domain \in AuthDomains :
        /\ ~Attempted(auth_attempted, domain)
        /\ wall_domain' = domain
        /\ auth_attempted' = auth_attempted \cup {domain}
    /\ walls' = walls + 1
    /\ \/ /\ headless_ctx
          /\ ctx_cookies' = ctx_cookies \cup Range(cached_cookies)
          /\ Returns(AuthResult(TRUE, "cached_cookies", Len(cached_cookies)))
       \/ /\ headless_ctx
          /\ ctx_cookies' \in {ctx_cookies, ctx_cookies \cup Range(cached_cookies)}
          /\ Returns(AuthResult(FALSE, "cached_cookies", 0))
       \/ /\ ~headless_ctx
          /\ UNCHANGED ctx_cookies
          /\ Returns(AuthResult(FALSE, "cached_cookies", 0))
    /\ UNCHANGED << authFixed, event_is_set, auth_cookies, cached_cookies,
                    handoffs >>
    /\ UNCHANGED notAuthVars

\* a login wall on a new domain without a local display: auth_required is
\* emitted and the handler waits for the event of the scan, or returns at
\* once when it was given no event
RemoteRequired ==
    /\ apc = "idle"
    /\ walls < MaxWalls
    /\ cached_cookies = << >>
    /\ ~pw
    /\ \E domain \in AuthDomains :
        /\ ~Attempted(auth_attempted, domain)
        /\ wall_domain' = domain
        /\ auth_attempted' = auth_attempted \cup {domain}
        /\ handoffs' = CountHandoff(domain)
    /\ walls' = walls + 1
    /\ IF cookie_event
       THEN apc' = "waiting" /\ UNCHANGED << auth_result, auth_logged_in >>
       ELSE Returns(AuthResult(FALSE, "skipped", 0))
    /\ UNCHANGED << authFixed, event_is_set, auth_cookies, cached_cookies,
                    ctx_cookies >>
    /\ UNCHANGED notAuthVars

\* a login wall on a new domain with a local display: _headful_login emits
\* auth_required and launches the visible browser
HeadfulRequired ==
    /\ apc = "idle"
    /\ walls < MaxWalls
    /\ cached_cookies = << >>
    /\ pw
    /\ \E domain \in AuthDomains :
        /\ ~Attempted(auth_attempted, domain)
        /\ wall_domain' = domain
        /\ auth_attempted' = auth_attempted \cup {domain}
        /\ handoffs' = CountHandoff(domain)
    /\ walls' = walls + 1
    /\ apc' = "headful"
    /\ UNCHANGED << authFixed, event_is_set, auth_cookies, cached_cookies,
                    ctx_cookies, auth_result, auth_logged_in >>
    /\ UNCHANGED notAuthVars

\* the progress callback raises on auth_required: self._on_progress is the
\* callback itself, called outside every try, and QAAgent calls
\* check_and_handle_login outside every try
RequiredSinkRaises ==
    /\ apc = "idle"
    /\ walls < MaxWalls
    /\ cached_cookies = << >>
    /\ \E domain \in AuthDomains :
        /\ ~Attempted(auth_attempted, domain)
        /\ wall_domain' = domain
        /\ auth_attempted' = auth_attempted \cup {domain}
    /\ walls' = walls + 1
    /\ apc' = "raised"
    /\ UNCHANGED << authFixed, event_is_set, auth_cookies, cached_cookies,
                    ctx_cookies, auth_result, handoffs, auth_logged_in >>
    /\ UNCHANGED notAuthVars

\* the lane of the backend: on_auth_complete of auth_start, or auth_done,
\* stores the cookies of the remote browser under the scan and sets the
\* event; the remote browser exists once auth_required has been emitted
AuthComplete ==
    /\ ~pw
    /\ \E domain \in DOMAIN handoffs : handoffs[domain] > 0
    /\ apc # "raised"
    /\ \E cookies \in CookieJars :
        auth_cookies' = StoreCookies(auth_cookies, cookies)
    /\ event_is_set' = TRUE
    /\ UNCHANGED << authFixed, auth_attempted, cached_cookies, ctx_cookies,
                    apc, wall_domain, auth_result, handoffs, walls,
                    auth_logged_in >>
    /\ UNCHANGED notAuthVars

\* the event is set: the handler reads the cookies of the scan from its
\* store, and with cookies and a context injects, caches, reloads
WaitReturns ==
    /\ apc = "waiting"
    /\ event_is_set
    /\ IF StoredCookies(CookieStore) # << >> /\ headless_ctx
       THEN /\ ctx_cookies' = ctx_cookies \cup Range(StoredCookies(CookieStore))
            /\ cached_cookies' = StoredCookies(CookieStore)
            /\ Returns(AuthResult(TRUE, "remote_browser",
                                  Len(StoredCookies(CookieStore))))
       ELSE /\ UNCHANGED << ctx_cookies, cached_cookies >>
            /\ Returns(AuthResult(FALSE, "skipped", 0))
    /\ UNCHANGED << authFixed, event_is_set, auth_cookies, auth_attempted,
                    wall_domain, handoffs, walls >>
    /\ UNCHANGED notAuthVars

\* the wait ends with the event unset: auth_timeout is emitted, skipped
WaitTimesOut ==
    /\ apc = "waiting"
    /\ ~event_is_set
    /\ Returns(AuthResult(FALSE, "skipped", 0))
    /\ UNCHANGED << authFixed, event_is_set, auth_cookies, auth_attempted,
                    cached_cookies, ctx_cookies, wall_domain, handoffs, walls >>
    /\ UNCHANGED notAuthVars

\* the progress callback raises on auth_timeout, inside the except clause
TimeoutSinkRaises ==
    /\ apc = "waiting"
    /\ ~event_is_set
    /\ apc' = "raised"
    /\ UNCHANGED << authFixed, event_is_set, auth_cookies, auth_attempted,
                    cached_cookies, ctx_cookies, wall_domain, auth_result,
                    handoffs, walls, auth_logged_in >>
    /\ UNCHANGED notAuthVars

\* _wait_for_login reports success: the cookies of the visible browser are
\* cached and, with a context, injected
HeadfulSucceeds ==
    /\ apc = "headful"
    /\ \E cookies \in CookieJars :
        /\ cached_cookies' = cookies
        /\ IF headless_ctx
           THEN /\ ctx_cookies' = ctx_cookies \cup Range(cookies)
                /\ Returns(AuthResult(TRUE, "headful", Len(cookies)))
           ELSE /\ UNCHANGED ctx_cookies
                /\ Returns(AuthResult(TRUE, "headful", 0))
    /\ UNCHANGED << authFixed, event_is_set, auth_cookies, auth_attempted,
                    wall_domain, handoffs, walls >>
    /\ UNCHANGED notAuthVars

\* the login times out, the window is closed, or the visible browser raises
HeadfulFails ==
    /\ apc = "headful"
    /\ Returns(AuthResult(FALSE, "headful", 0))
    /\ UNCHANGED << authFixed, event_is_set, auth_cookies, auth_attempted,
                    cached_cookies, ctx_cookies, wall_domain, handoffs, walls >>
    /\ UNCHANGED notAuthVars

NextAuth ==
    \/ NoLoginWall
    \/ AlreadyAttempted
    \/ InjectCached
    \/ RemoteRequired
    \/ HeadfulRequired
    \/ RequiredSinkRaises
    \/ AuthComplete
    \/ WaitReturns
    \/ WaitTimesOut
    \/ TimeoutSinkRaises
    \/ HeadfulSucceeds
    \/ HeadfulFails

SpecAuth == InitAuth /\ [][NextAuth]_vars

\* C14: over any sequence of check_and_handle_login calls of one handler the
\* hand-off to the human (the visible browser, or the wait for the remote
\* browser announced by auth_required) is started at most once per domain.
OneHandoffPerDomain ==
    \A domain \in DOMAIN handoffs : handoffs[domain] <= 1

\* Three login walls of one domain have been detected, the first was handed
\* off and the last was skipped.
ThreeWallsOneHandoff ==
    /\ walls = 3
    /\ apc = "idle"
    /\ auth_attempted = {wall_domain}
    /\ HandoffsOf(wall_domain) = 1
    /\ auth_result.method = "skipped"

\* C15: once a hand-off has succeeded and its cookies are cached, every later
\* login wall, on the same domain or another, is answered by re-injecting
\* the cached cookies: a successful cached_cookies result and no new
\* hand-off.
CachedJarAnswersLaterWalls ==
    [][(apc = "idle" /\ cached_cookies # << >> /\ walls' = walls + 1) =>
        /\ auth_result'.success
        /\ auth_result'.method = "cached_cookies"
        /\ handoffs' = handoffs]_vars

\* C16: without a local display, when the backend has stored a non-empty
\* cookie list for the scan and set the event while the handler waits, the
\* handler returns success with exactly those cookies cached and injected
\* into the scanning context.
RemoteCookiesReachScan ==
    [][(/\ apc = "waiting"
        /\ apc' = "idle"
        /\ headless_ctx
        /\ event_is_set
        /\ StoredCookies(auth_cookies) # << >>) =>
        /\ auth_result'.success
        /\ cached_cookies' = StoredCookies(auth_cookies)
        /\ Range(StoredCookies(auth_cookies)) \subseteq ctx_cookies']_vars

\* C20: an exception of the progress callback is swallowed for every event,
\* auth_required and auth_timeout of the AuthHandler included: none leaves
\* check_and_handle_login and ends the scan.
SinkExceptionSwallowed == apc # "raised"

(***************************************************************************)
(* The scan under failing browser calls, and its termination.  The scan is *)
(* one coroutine: with every browser call returning or raising, each step  *)
(* of the scan that is enabled is eventually taken.                        *)
(***************************************************************************)

SpecFair == Spec /\ WF_vars(Next)

\* C18: no failing browser call of a visit ends the scan: no exception
\* leaves the scheduler loop, and when the scan has returned no node is
\* left in status visiting.
VisitFailuresContained ==
    /\ pc # "aborted"
    /\ pc = "done" => \A u \in DOMAIN nodes : StatusOf(u) # "visiting"

\* C19: with every browser call returning or raising, the scheduler loop
\* ends with the frontier empty or the budget used up, and the scan returns
\* the graph.
ScanReturnsGraph ==
    <>(pc = "done" /\ (queue = << >> \/ visit_count >= max_pages))

\* The scheduler loop ends in every scan, by its exit or by an exception.
SchedulerLoopEnds == <>(pc \in {"done", "aborted"})

(***************************************************************************)
(* The order of the frontier.  The frontier is a heapq heap of tuples      *)
(* (-priority, depth, url): heappush and heappop compare whole tuples.     *)
(***************************************************************************)

\* how many entries the frontier holds at once
MaxPushes == 3

\* the priorities, depths and urls of the entries pushed
HeapPriorities == {5, 7}

HeapDepths == {1, 2}

HeapUrls == {UrlRoot, UrlA, UrlASlash, UrlSub}

HeapEntries ==
    {<< 0 - p, d, u >> : p \in HeapPriorities, d \in HeapDepths, u \in HeapUrls}

\* the list without its first occurrence of the entry
RECURSIVE RemoveFirst(_, _)
RemoveFirst(q, entry) ==
    IF q = << >> THEN << >>
    ELSE IF Head(q) = entry THEN Tail(q)
    ELSE << Head(q) >> \o RemoveFirst(Tail(q), entry)

\* The entry of the list that is first by priority descending, then depth
\* ascending, then position in the list.
FirstInOrder(q) ==
    LET best(i) ==
            \A j \in 1..Len(q) :
                \/ q[i][1] < q[j][1]
                \/ q[i][1] = q[j][1] /\ q[i][2] < q[j][2]
                \/ q[i][1] = q[j][1] /\ q[i][2] = q[j][2] /\ i <= j
    IN  q[CHOOSE i \in 1..Len(q) : best(i)]

InitHeap ==
    /\ ScanIdle
    /\ NormIdle
    /\ JourneyIdle
    /\ StepIdle
    /\ VerifyIdle
    /\ AuthIdle
    /\ HeapIdle
    /\ PagingIdle
    /\ DetectIdle
    /\ RetryIdle
    /\ PollIdle
    /\ DiffIdle
    /\ VerdictIdle
    /\ PlanIdle
    /\ RemoteIdle
    /\ StreamIdle

\* heapq.heappush(self._queue, (-priority, depth, url)) of a url that is not
\* in the frontier
HeapPush ==
    /\ Len(heap) < MaxPushes
    /\ \E entry \in HeapEntries :
        /\ \A i \in 1..Len(heap) : heap[i][3] # entry[3]
        /\ heap' = heappush(heap, entry)
        /\ inserted' = Append(inserted, entry)
    /\ UNCHANGED notHeapVars

\* neg_pri, depth, url = heapq.heappop(self._queue)
HeapPop ==
    /\ heap # << >>
    /\ heap' = HeapRest(heap)
    /\ inserted' = RemoveFirst(inserted, HeapTop(heap))
    /\ UNCHANGED notHeapVars

NextHeap ==
    \/ HeapPush
    \/ HeapPop

SpecHeap == InitHeap /\ [][NextHeap]_vars

\* C21: the entry the scheduler pops next is the one of highest priority,
\* among those the one of lowest depth, and among those of equal priority
\* and depth the one that was inserted first.
PopsInInsertionOrderAmongEquals ==
    heap # << >> => HeapTop(heap) = FirstInOrder(inserted)

\* The entry popped next is one of highest priority and, among those, of
\* lowest depth.
PopsByPriorityThenDepth ==
    \A i \in 1..Len(heap) :
        \/ HeapTop(heap)[1] < heap[i][1]
        \/ HeapTop(heap)[1] = heap[i][1] /\ HeapTop(heap)[2] <= heap[i][2]

(***************************************************************************)
(* Registration of discovered destinations, on every discovery path.      *)
(***************************************************************************)

\* C22: a url is pushed onto the frontier at most once in a scan: no url is
\* held by two entries of the frontier, whichever path registered it.
UrlQueuedAtMostOnce ==
    \A i, j \in 1..Len(queue) : queue[i][3] = queue[j][3] => i = j

\* C23: whenever the visit of a page observes an admitted destination other
\* than the page, after a form, search or button interaction or in the
\* middle of a journey, the graph the registration leaves holds the edge
\* from the page to the destination, whether the destination is a new node
\* or a known one.
ObservedDestinationGetsEdge ==
    /\ pc = "interact" =>
        \A url_after \in Hrefs :
            ExplorerIsAllowed(NormalizeOf[url_after]) /\ NormalizeOf[url_after] # cur
                => << cur, NormalizeOf[url_after] >>
                       \in navigated(Graph, cur, url_after, SearchPriority).edges
    /\ pc = "journeys" =>
        \A current \in Hrefs :
            /\ current # cur
            /\ AgentIsAllowed(current)
            /\ NormalizeOf[current] # cur
            => << cur, NormalizeOf[current] >>
                   \in track_navigation(Graph, cur, current).edges

(***************************************************************************)
(* Pagination.  One page of the site, the listing h.c/, links to its       *)
(* pages h.c/l?p=1, h.c/l?p=2, ... and to h.c/a.  SiteCrawler.discover     *)
(* counts the pagination links it enqueues per chain; SiteExplorer         *)
(* registers the links of a page through _follow_link.                     *)
(***************************************************************************)

\* pages SiteCrawler visits (max_pages)
MaxPagingPages == 4

\* pagination links SiteCrawler.discover enqueues per chain
PaginationCap == 5

\* the links _extract_links returns for the listing page and the link
\* elements _discover_elements returns for it
PageLinks == PagingUrls \cup {UrlA}

PaginationMarks ==
    { << "p", "a", "g", "e", "=" >>, << "/", "p", "a", "g", "e", "/" >>,
      << "o", "f", "f", "s", "e", "t", "=" >>, << "p", "=" >>, << "p", "g", "=" >> }

\* SiteCrawler._is_pagination
is_pagination(link) ==
    \E mark \in PaginationMarks :
        \/ Contains(Lower(UrlParse(link).query), mark)
        \/ Contains(Lower(UrlParse(link).path), mark)

\* path.rsplit("/", 1)[0]
RSplitHead(path) ==
    IF RFind(path, "/") = 0 THEN path ELSE Before(path, RFind(path, "/"))

\* SiteCrawler._pagination_chain_key
pagination_chain_key(url) == UrlParse(url).netloc \o RSplitHead(UrlParse(url).path)

\* the two, computed once for the links of the page
IsPaginationOf == [u \in PageLinks |-> is_pagination(u)]

ChainKeyOf == [u \in PageLinks |-> pagination_chain_key(u)]

ChainKeys == {ChainKeyOf[u] : u \in PageLinks}

\* self._pagination_chains.get(chain_key, 0)
ChainCount(chains, key) == IF key \in DOMAIN chains THEN chains[key] ELSE 0

\* d[key] = n
SetCount(chains, key, n) ==
    [k \in DOMAIN chains \cup {key} |-> IF k = key THEN n ELSE chains[k]]

\* SiteExplorer._is_allowed on the links of the page, for the start url h.c/
PagingAllowed ==
    {u \in PageLinks :
        IsAllowedBy(u, BaseDomainOf(RStripSlash(UrlRoot)), ExplorerSkipExt,
                    ExplorerSkipPatterns)}

\* the link element of the page for a href
LinkElement(href) == [type |-> "content_link", priority |-> 5, href |-> href]

\* the links in the order of the page: by url
RECURSIVE LinkList(_)
LinkList(S) ==
    IF S = {} THEN << >>
    ELSE LET first == CHOOSE u \in S : \A v \in S \ {u} : StrLess(u, v)
         IN  << first >> \o LinkList(S \ {first})

\* the lists of links a page of the site may show: the pagination links of
\* a listing of n pages, with or without the link to h.c/a
PageLinkLists ==
    {LinkList({ListUrl(i) : i \in 1..n} \cup A) :
        n \in 0..MaxPagingLinks, A \in {{}, {UrlA}}}

\* the count of pagination links enqueued, after one more of the chain of url
CountPush(url) ==
    IF IsPaginationOf[url]
    THEN SetCount(pushed, ChainKeyOf[url], ChainCount(pushed, ChainKeyOf[url]) + 1)
    ELSE pushed

InitPaging ==
    /\ ScanIdle
    /\ NormIdle
    /\ JourneyIdle
    /\ StepIdle
    /\ VerifyIdle
    /\ AuthIdle
    /\ HeapIdle
    /\ crawler \in {"SiteCrawler", "SiteExplorer"}
    /\ crawl_queue = IF crawler = "SiteCrawler" THEN << RStripSlash(UrlRoot) >> ELSE << >>
    /\ visited = {}
    /\ pagination_chains = << >>
    /\ page_graph =
        IF crawler = "SiteExplorer"
        THEN [nodes |-> (RStripSlash(UrlRoot) :> [status |-> "visiting", depth |-> 0]),
              edges |-> {}, queue |-> << >>]
        ELSE [nodes |-> << >>, edges |-> {}, queue |-> << >>]
    /\ page_links \in IF crawler = "SiteExplorer" THEN PageLinkLists ELSE {<< >>}
    /\ link_count = 0
    /\ pushed = << >>
    /\ DetectIdle
    /\ RetryIdle
    /\ PollIdle
    /\ DiffIdle
    /\ VerdictIdle
    /\ PlanIdle
    /\ RemoteIdle
    /\ StreamIdle

\* SiteCrawler.discover: the next url of the queue was visited before
CrawlerSkipsVisited ==
    /\ crawler = "SiteCrawler"
    /\ page_links = << >>
    /\ crawl_queue # << >>
    /\ Cardinality(visited) < MaxPagingPages
    /\ NormalizeOf[Head(crawl_queue)] \in visited
    /\ crawl_queue' = Tail(crawl_queue)
    /\ UNCHANGED << crawler, visited, pagination_chains, page_graph, page_links,
                    link_count, pushed >>
    /\ UNCHANGED notPagingVars

\* SiteCrawler.discover: page.goto fails, gives no response or a status >= 400
CrawlerGotoFails ==
    /\ crawler = "SiteCrawler"
    /\ page_links = << >>
    /\ crawl_queue # << >>
    /\ Cardinality(visited) < MaxPagingPages
    /\ NormalizeOf[Head(crawl_queue)] \notin visited
    /\ crawl_queue' = Tail(crawl_queue)
    /\ UNCHANGED << crawler, visited, pagination_chains, page_graph, page_links,
                    link_count, pushed >>
    /\ UNCHANGED notPagingVars

\* SiteCrawler.discover: the page loads and its links are extracted
CrawlerVisits ==
    /\ crawler = "SiteCrawler"
    /\ page_links = << >>
    /\ crawl_queue # << >>
    /\ Cardinality(visited) < MaxPagingPages
    /\ NormalizeOf[Head(crawl_queue)] \notin visited
    /\ crawl_queue' = Tail(crawl_queue)
    /\ visited' = visited \cup {NormalizeOf[Head(crawl_queue)]}
    /\ page_links' \in PageLinkLists
    /\ UNCHANGED << crawler, pagination_chains, page_graph, link_count, pushed >>
    /\ UNCHANGED notPagingVars

\* what one turn of the loop of SiteCrawler.discover over the links does
\* with the link
CrawlerEnqueue(link) ==
    IF NormalizeOf[link] \in visited
    THEN UNCHANGED << crawl_queue, pagination_chains, pushed >>
    ELSE IF IsPaginationOf[link]
            /\ ChainCount(pagination_chains, ChainKeyOf[link]) >= PaginationCap
    THEN UNCHANGED << crawl_queue, pagination_chains, pushed >>
    ELSE /\ pagination_chains' =
             IF IsPaginationOf[link]
             THEN SetCount(pagination_chains, ChainKeyOf[link],
                           ChainCount(pagination_chains, ChainKeyOf[link]) + 1)
             ELSE pagination_chains
         /\ crawl_queue' = Append(crawl_queue, link)
         /\ pushed' = CountPush(link)

\* SiteCrawler.discover: one turn of the loop over the links of the page
CrawlerLink ==
    /\ crawler = "SiteCrawler"
    /\ page_links # << >>
    /\ page_links' = Tail(page_links)
    /\ CrawlerEnqueue(Head(page_links))
    /\ UNCHANGED << crawler, visited, page_graph, link_count >>
    /\ UNCHANGED notPagingVars

\* what _interact_with_elements does with the link element of a href
ExplorerRegister(href) ==
    IF link_count < max_links /\ href \in PagingAllowed
    THEN /\ page_graph' =
             follow_link(page_graph, RStripSlash(UrlRoot), LinkElement(href))
         /\ link_count' = link_count + 1
         /\ pushed' =
             IF NormalizeOf[href] \notin DOMAIN page_graph.nodes
             THEN CountPush(href) ELSE pushed
    ELSE UNCHANGED << page_graph, link_count, pushed >>

\* SiteExplorer._interact_with_elements on a link element of the page
ExplorerLink ==
    /\ crawler = "SiteExplorer"
    /\ page_links # << >>
    /\ page_links' = Tail(page_links)
    /\ ExplorerRegister(Head(page_links))
    /\ UNCHANGED << crawler, crawl_queue, visited, pagination_chains >>
    /\ UNCHANGED notPagingVars

NextPaging ==
    \/ CrawlerSkipsVisited
    \/ CrawlerGotoFails
    \/ CrawlerVisits
    \/ CrawlerLink
    \/ ExplorerLink

SpecPaging == InitPaging /\ [][NextPaging]_vars

\* C24: in a scan at most 5 pagination links are enqueued per pagination
\* chain (host and path prefix).
PaginationCapped ==
    \A key \in DOMAIN pushed : pushed[key] <= PaginationCap

\* SiteCrawler enqueues at most 5 pagination links per chain.
CrawlerPaginationCapped ==
    crawler = "SiteCrawler" => PaginationCapped

(***************************************************************************)
(* The retry of a critical journey in QAAgent._visit_and_test.             *)
(***************************************************************************)

\* C25: a retry starts only after the journey returned failed, with
\* priority >= 9 and the oracle available; a retry is followed by no
\* second retry of the journey; and a journey that was executed leaves
\* exactly one result: without a retry its own, after a retry the retry's
\* when the retry passed and else the original failed one.
RetriesOnceAndRecordsOne ==
    [][ /\ jpc' = "retry" /\ jpc # "retry" =>
            /\ jpc = "returned"
            /\ flow_result.status = "failed"
            /\ journey.priority >= CriticalPriority
            /\ ai_available
        /\ jpc = "retry" => jpc' \in {"retry", "next"}
        /\ jpc = "retry" /\ jpc' = "next" =>
            /\ flow_result.status = "failed"
            /\ completed_flows' =
                Append(completed_flows,
                       IF retry_result'.status = "passed"
                       THEN retry_result' ELSE flow_result)
        /\ jpc = "returned" /\ jpc' = "next" =>
            completed_flows' = Append(completed_flows, flow_result)
        /\ jpc \in {"steps", "retry", "returned"} /\ jpc' = jpc =>
            completed_flows' = completed_flows
      ]_vars

\* A critical journey failed, its retry passed and the retry's result is
\* the one recorded for it.
RetryPassedAndRecorded ==
    /\ jpc = "next"
    /\ journey.priority >= CriticalPriority
    /\ retry_result.status = "passed"
    /\ Len(completed_flows) = 1
    /\ completed_flows[1] = retry_result

\* A critical journey failed, its retry failed too and the original result
\* is the one recorded for it.
RetryFailedOriginalRecorded ==
    /\ jpc = "next"
    /\ retry_result.status = "failed"
    /\ Len(completed_flows) = 1
    /\ completed_flows[1].status = "failed"
    /\ Len(completed_flows[1].steps) # Len(retry_result.steps)

(***************************************************************************)
(* The step loop of FlowRunner._execute_flow after a failed step.          *)
(***************************************************************************)

\* C26: in a flow of FlowRunner a step whose execution failed (its result is
\* failed, or skipped once the oracle chose a recovery) is the last step
\* executed, and the flow's status is failed from then on.
FailedStepEndsFlow ==
    runner = "flow_runner" /\ jpc = "flow" =>
        \A i \in DOMAIN step_results :
            step_results[i] \in {"failed", "skipped"} =>
                i = Len(step_results) /\ flow_status = "failed"

\* Without an oracle a failed step ends the flow as failed.
FailedStepEndsFlowWithoutOracle ==
    ~ai_available => FailedStepEndsFlow

(***************************************************************************)
(* Registration deep in the site.  The scan is taken up in the visit of    *)
(* h.c/a at depth d: the start page and the pages on the way to h.c/a were *)
(* visited, and those on the way lie outside the urls of the model.        *)
(***************************************************************************)

\* the depth of the page whose visit is taken up
MaxDepth == 4

InitDeep ==
    /\ engine \in {"explorer", "agent"}
    /\ base_url \in BaseUrls
    /\ \E d \in 1..MaxDepth :
        /\ nodes = (base_url :> [status |-> "visited", depth |-> 0])
                       @@ (UrlA :> [status |-> "visiting", depth |-> d])
        /\ visit_count = d + 1
    /\ max_pages \in {visit_count, visit_count + 1}
    /\ edges = {}
    /\ queue = << >>
    /\ pc = IF engine = "explorer" THEN "interact" ELSE "journeys"
    /\ cur = UrlA
    /\ elem_n = 0
    /\ last_rank = 0
    /\ counts = ZeroCounts
    /\ tracks = 0
    /\ NormIdle
    /\ JourneyIdle
    /\ StepIdle
    /\ VerifyIdle
    /\ AuthIdle
    /\ RestIdle

SpecDeep == InitDeep /\ [][Next]_vars

\* The priority of the frontier entry for an element of the given priority
\* that discovers a node at the given depth.
DecayedPriority(priority, depth) ==
    IF depth > DecayDepth THEN Max2(1, priority - 2) ELSE priority

\* In the graph g the url, new to the current graph, is a node one level
\* below the page being visited, and its frontier entry carries the decayed
\* priority.
RegisteredBelow(g, url, priority) ==
    /\ url \in DOMAIN g.nodes
    /\ g.nodes[url].depth = nodes[cur].depth + 1
    /\ \E i \in 1..Len(g.queue) :
        g.queue[i] =
            << 0 - DecayedPriority(priority, nodes[cur].depth + 1),
               nodes[cur].depth + 1, url >>

\* _follow_link registers a new destination one level below, decayed
FollowLinkDecays ==
    pc = "interact" =>
        \A el \in ElementsOf(ExplorerKinds) :
            /\ el.type \in LinkTypes
            /\ el.href # NoUrl
            /\ ExplorerIsAllowed(el.href)
            /\ NormalizeOf[el.href] \notin DOMAIN nodes
            => RegisteredBelow(follow_link(Graph, cur, el), NormalizeOf[el.href],
                               el.priority)

\* _queue_links registers a new destination one level below, decayed
QueueLinkDecays ==
    pc = "queue_links" =>
        \A el \in ElementsOf(AgentKinds) :
            /\ el.type \in {"nav_link", "content_link"}
            /\ el.href # NoUrl
            /\ AgentIsAllowed(el.href)
            /\ NormalizeOf[el.href] \notin DOMAIN nodes
            /\ counts.link < QueueLinkCap
            => RegisteredBelow(queue_link(Graph, cur, el, counts.link),
                               NormalizeOf[el.href], el.priority)

\* _expand_menu registers a new destination one level below, decayed
ExpandMenuDecays ==
    pc = "interact" =>
        \A new_elements \in MenuLists :
            /\ ExplorerIsAllowed(new_elements[1].href)
            /\ NormalizeOf[new_elements[1].href] \notin DOMAIN nodes
            => RegisteredBelow(expand_menu(Graph, cur, new_elements),
                               NormalizeOf[new_elements[1].href],
                               new_elements[1].priority)

\* _click_button registers a new destination one level below, decayed
ClickButtonDecays ==
    pc = "interact" =>
        \A el \in ElementsOf(ExplorerKinds), url_after \in Hrefs :
            /\ el.type = "cta"
            /\ ExplorerIsAllowed(NormalizeOf[url_after])
            /\ NormalizeOf[url_after] \notin DOMAIN nodes
            => RegisteredBelow(navigated(Graph, cur, url_after, el.priority),
                               NormalizeOf[url_after], el.priority)

\* C27: on every discovery path a new node is created one level below the
\* page that discovers it, and its frontier entry carries the discovering
\* element's priority, lowered when the new depth exceeds 3 and never below
\* 1.
DiscoveryDepthAndDecay ==
    /\ FollowLinkDecays
    /\ QueueLinkDecays
    /\ ExpandMenuDecays
    /\ ClickButtonDecays

\* On every discovery path a new node is created one level below the page
\* that discovers it.
DiscoveredOneLevelBelow ==
    cur = UrlA =>
        \A u \in DOMAIN nodes :
            u \notin {base_url, UrlA} => nodes[u].depth = nodes[UrlA].depth + 1

(***************************************************************************)
(* The bug detectors of a page: _run_detectors of SiteExplorer and of      *)
(* QAAgent, and the detector calls of FlowLensScanner.scan.                *)
(***************************************************************************)

\* pages on which the detectors run
MaxDetectPages == 2

\* findings a detector returns for a page
MaxFindings == 1

\* The detectors an engine calls on a page, in the order of the calls.
DetectorsOf(eng, viewport) ==
    IF eng = "FlowLensScanner" /\ viewport = "desktop"
    THEN << "functional", "performance", "responsive", "accessibility" >>
    ELSE << "functional", "performance", "responsive" >>

\* What follows the k-th detector call of the page.
AfterDetector(eng, viewport, d) ==
    LET order == DetectorsOf(eng, viewport)
        k == CHOOSE i \in DOMAIN order : order[i] = d
    IN  IF k = Len(order) THEN "end" ELSE order[k + 1]

\* n findings of the detector d
RECURSIVE Findings(_, _)
Findings(d, n) == IF n = 0 THEN << >> ELSE << d >> \o Findings(d, n - 1)

SeqRange(q) == {q[i] : i \in DOMAIN q}

InitDetect ==
    /\ ScanIdle
    /\ NormIdle
    /\ JourneyIdle
    /\ StepIdle
    /\ VerifyIdle
    /\ AuthIdle
    /\ HeapIdle
    /\ PagingIdle
    /\ det_engine \in {"SiteExplorer", "QAAgent", "FlowLensScanner"}
    /\ det_viewport \in {"desktop", "mobile"}
    /\ dpc = "idle"
    /\ det_page = 0
    /\ det_bugs = << >>
    /\ det_found = << >>
    /\ det_ran = {}
    /\ result_bugs = << >>
    /\ result_errors = 0
    /\ RetryIdle
    /\ PollIdle
    /\ DiffIdle
    /\ VerdictIdle
    /\ PlanIdle
    /\ RemoteIdle
    /\ StreamIdle

detectFixed == << det_engine, det_viewport >>

\* The next page is taken up: _visit_page / _visit_and_test reach
\* _run_detectors with bugs = []; FlowLensScanner.scan enters the try of the
\* next page and reaches collect_metrics.
DetectStart ==
    /\ dpc = "idle"
    /\ det_page < MaxDetectPages
    /\ det_page' = det_page + 1
    /\ det_bugs' = << >>
    /\ det_found' = << >>
    /\ det_ran' = {}
    /\ dpc' = IF det_engine = "FlowLensScanner" THEN "metrics" ELSE "functional"
    /\ UNCHANGED << detectFixed, result_bugs, result_errors >>
    /\ UNCHANGED notDetectVars

\* FlowLensScanner.scan: performance.collect_metrics returns
ScannerMetrics ==
    /\ dpc = "metrics"
    /\ dpc' = "functional"
    /\ UNCHANGED << detectFixed, det_page, det_bugs, det_found, det_ran,
                    result_bugs, result_errors >>
    /\ UNCHANGED notDetectVars

\* bugs.extend(await detector.detect(...)): the detector returns its findings
DetectorReturns ==
    /\ dpc \in SeqRange(DetectorsOf(det_engine, det_viewport))
    /\ \E n \in 0..MaxFindings :
        /\ det_bugs' = det_bugs \o Findings(dpc, n)
        /\ det_found' = det_found \o Findings(dpc, n)
    /\ det_ran' = det_ran \cup {dpc}
    /\ dpc' = AfterDetector(det_engine, det_viewport, dpc)
    /\ UNCHANGED << detectFixed, det_page, result_bugs, result_errors >>
    /\ UNCHANGED notDetectVars

\* _run_detectors: the detector (or collect_metrics before performance.detect)
\* raises inside its own try; except Exception: pass
DetectorRaises ==
    /\ det_engine \in {"SiteExplorer", "QAAgent"}
    /\ dpc \in SeqRange(DetectorsOf(det_engine, det_viewport))
    /\ det_ran' = det_ran \cup {dpc}
    /\ dpc' = AfterDetector(det_engine, det_viewport, dpc)
    /\ UNCHANGED << detectFixed, det_page, det_bugs, det_found, result_bugs,
                    result_errors >>
    /\ UNCHANGED notDetectVars

\* FlowLensScanner.scan: collect_metrics or a detector raises inside the one
\* try of the page; the except clause records the error and the loop goes
\* on to the next page.
ScannerRaises ==
    /\ det_engine = "FlowLensScanner"
    /\ dpc \in SeqRange(DetectorsOf(det_engine, det_viewport)) \cup {"metrics"}
    /\ det_ran' = IF dpc = "metrics" THEN det_ran ELSE det_ran \cup {dpc}
    /\ result_errors' = result_errors + 1
    /\ result_bugs' = Append(result_bugs, << >>)
    /\ dpc' = "idle"
    /\ UNCHANGED << detectFixed, det_page, det_bugs, det_found >>
    /\ UNCHANGED notDetectVars

\* The detector calls are over: node.bugs = bugs, or
\* self.result.bugs.extend(bugs)
DetectorsDone ==
    /\ dpc = "end"
    /\ result_bugs' = Append(result_bugs, det_bugs)
    /\ dpc' = "idle"
    /\ UNCHANGED << detectFixed, det_page, det_bugs, det_found, det_ran,
                    result_errors >>
    /\ UNCHANGED notDetectVars

NextDetect ==
    \/ DetectStart
    \/ ScannerMetrics
    \/ DetectorReturns
    \/ DetectorRaises
    \/ ScannerRaises
    \/ DetectorsDone

SpecDetect == InitDetect /\ [][NextDetect]_vars

\* C28: when the detector calls of a page are over, every detector of the
\* engine was called on the page and the findings of the detectors that
\* returned are the ones kept for the page, whichever detector raised; and
\* the traversal goes on to the next page.
DetectorExceptionContained ==
    dpc = "idle" /\ det_page > 0 =>
        /\ det_ran = SeqRange(DetectorsOf(det_engine, det_viewport))
        /\ Len(result_bugs) = det_page
        /\ result_bugs[det_page] = det_found

\* _run_detectors of SiteExplorer and QAAgent contains the exception of a
\* detector.
RunDetectorsContains ==
    det_engine \in {"SiteExplorer", "QAAgent"} => DetectorExceptionContained

(***************************************************************************)
(* find_with_retry of retry_engine.py.  find_fn and ai_find_fn are the     *)
(* caller's: each call of them yields an element, yields none, or raises.  *)
(***************************************************************************)

\* None, for an element handle
NoHandle == 0

\* the element handles find_fn and ai_find_fn may yield
Handles == 1..MaxCandidates

\* A test no element passes.
tier_never_returns(el) == FALSE

\* `if el:` after the lookup of a strategy
tier_returns(el) == el # NoHandle

TierCall(tier, el) == [tier |-> tier, el |-> el]

InitRetry ==
    /\ ScanIdle
    /\ NormIdle
    /\ JourneyIdle
    /\ StepIdle
    /\ VerifyIdle
    /\ AuthIdle
    /\ HeapIdle
    /\ PagingIdle
    /\ DetectIdle
    /\ ai_find_fn \in BOOLEAN
    /\ overlay_open \in BOOLEAN
    /\ scroll_y \in {0, 1}
    /\ rpc = "direct"
    /\ tier_calls = << >>
    /\ found = [el |-> NoHandle, method |-> "none"]
    /\ PollIdle
    /\ DiffIdle
    /\ VerdictIdle
    /\ PlanIdle
    /\ RemoteIdle
    /\ StreamIdle

\* The lookup of a strategy yielded el: return it under the strategy's name,
\* or go on to the next strategy.
TierOutcome(tier, el, next) ==
    /\ tier_calls' = Append(tier_calls, TierCall(tier, el))
    /\ IF tier_returns(el)
       THEN /\ found' = [el |-> el, method |-> tier]
            /\ rpc' = "returned"
       ELSE /\ rpc' = next
            /\ UNCHANGED found

\* Strategy 1: el = await find_fn(page, target_description)
DirectLookup ==
    /\ rpc = "direct"
    /\ \E el \in Handles \cup {NoHandle} : TierOutcome("heuristic", el, "stabilize")
    /\ UNCHANGED << ai_find_fn, overlay_open, scroll_y >>
    /\ UNCHANGED notRetryVars

\* Strategy 2: wait_for_stable_page, then find_fn again
StabilizeRetry ==
    /\ rpc = "stabilize"
    /\ \E el \in Handles \cup {NoHandle} :
        TierOutcome("heuristic_retry", el, "scroll")
    /\ UNCHANGED << ai_find_fn, overlay_open, scroll_y >>
    /\ UNCHANGED notRetryVars

\* Strategy 3: the scroll down raises, or find_fn raises after it; the
\* except clause swallows either.
ScrollRaises ==
    /\ rpc = "scroll"
    /\ scroll_y' \in {scroll_y, scroll_y + 1}
    /\ tier_calls' = Append(tier_calls, TierCall("scroll_retry", NoHandle))
    /\ rpc' = "overlay"
    /\ UNCHANGED << ai_find_fn, overlay_open, found >>
    /\ UNCHANGED notRetryVars

\* Strategy 3: scroll one viewport down, find_fn again, and scroll back to
\* the top when it yields none; the scroll back may raise, which is
\* swallowed too.
ScrollRetry ==
    /\ rpc = "scroll"
    /\ \E el \in Handles \cup {NoHandle} :
        /\ TierOutcome("scroll_retry", el, "overlay")
        /\ scroll_y' \in IF tier_returns(el) THEN {scroll_y + 1}
                         ELSE {0, scroll_y + 1}
    /\ UNCHANGED << ai_find_fn, overlay_open >>
    /\ UNCHANGED notRetryVars

\* Strategy 4: _try_dismiss_overlays, which closes an overlay or not, then
\* find_fn again
OverlayRetry ==
    /\ rpc = "overlay"
    /\ overlay_open' \in {overlay_open, FALSE}
    /\ \E el \in Handles \cup {NoHandle} :
        TierOutcome("overlay_dismiss_retry", el, "oracle")
    /\ UNCHANGED << ai_find_fn, scroll_y >>
    /\ UNCHANGED notRetryVars

\* Strategy 5: el, ai_used = await ai_find_fn(target_description)
OracleLookup ==
    /\ rpc = "oracle"
    /\ ai_find_fn
    /\ \E el \in Handles \cup {NoHandle} :
        /\ tier_calls' = Append(tier_calls, TierCall("ai_fallback", el))
        /\ found' = IF el # NoHandle THEN [el |-> el, method |-> "ai_fallback"]
                    ELSE [el |-> NoHandle, method |-> "not_found"]
    /\ rpc' = "returned"
    /\ UNCHANGED << ai_find_fn, overlay_open, scroll_y >>
    /\ UNCHANGED notRetryVars

\* No ai_find_fn was passed: return None, "not_found"
NoOracle ==
    /\ rpc = "oracle"
    /\ ~ai_find_fn
    /\ found' = [el |-> NoHandle, method |-> "not_found"]
    /\ rpc' = "returned"
    /\ UNCHANGED << ai_find_fn, overlay_open, scroll_y, tier_calls >>
    /\ UNCHANGED notRetryVars

\* find_fn raises in strategy 1, 2 or 4, or ai_find_fn raises: the exception
\* leaves find_with_retry.
LookupRaises ==
    /\ rpc \in {"direct", "stabilize", "overlay"} \/ (rpc = "oracle" /\ ai_find_fn)
    /\ rpc' = "raised"
    /\ UNCHANGED << ai_find_fn, overlay_open, scroll_y, tier_calls, found >>
    /\ UNCHANGED notRetryVars

NextRetry ==
    \/ DirectLookup
    \/ StabilizeRetry
    \/ ScrollRaises
    \/ ScrollRetry
    \/ OverlayRetry
    \/ OracleLookup
    \/ NoOracle
    \/ LookupRaises

SpecRetry == InitRetry /\ [][NextRetry]_vars

\* the strategies in the order of the claim, by the names reported
TierOrder ==
    << "heuristic", "heuristic_retry", "scroll_retry", "overlay_dismiss_retry",
       "ai_fallback" >>

NotFoundAfterEveryTier ==
    /\ rpc = "returned"
    /\ found = [el |-> NoHandle, method |-> "not_found"]
    /\ Len(tier_calls) = 5

(***************************************************************************)
(* The login pollers: AuthHandler._wait_for_login and                      *)
(* RemoteBrowserSession._login_detection_loop.  Between two polls the user *)
(* may navigate the login session and the site may set cookies.            *)
(***************************************************************************)

\* polls before _wait_for_login times out (timeout_seconds / poll_interval)
MaxPolls == 3

\* a login wall whose url names it, and one recognised by its password field
UrlLogin == << "h", ".", "c", "/", "l", "o", "g", "i", "n" >>

UrlAccount == << "h", ".", "c", "/", "m", "e" >>

\* a second step of the login, on the same site
UrlSso == << "h", ".", "c", "/", "s", "s", "o" >>

LoginWalls == {UrlLogin, UrlAccount}

\* the urls the login session may show
PollUrls == {UrlLogin, UrlAccount, UrlSso, UrlA, UrlSub, UrlOther}

\* _LOGIN_KEYWORDS
LoginKeywords ==
    { << "l", "o", "g", "i", "n" >>, << "s", "i", "g", "n", "i", "n" >>,
      << "s", "i", "g", "n", "-", "i", "n" >>, << "s", "i", "g", "n", "_", "i", "n" >>,
      << "a", "u", "t", "h" >>,
      << "a", "u", "t", "h", "e", "n", "t", "i", "c", "a", "t", "e" >>,
      << "i", "d", "e", "n", "t", "i", "f", "i", "e", "r" >>, << "s", "s", "o" >>,
      << "o", "a", "u", "t", "h" >>,
      << "s", "e", "r", "v", "i", "c", "e", "l", "o", "g" >> }

\* the name patterns of a session cookie
SessionKeywords ==
    { << "s", "e", "s", "s", "i", "o", "n" >>, << "t", "o", "k", "e", "n" >>,
      << "a", "u", "t", "h" >>, << "j", "w", "t" >>, << "s", "i", "d" >>,
      << "s", "s", "i", "d" >>, << "l", "o", "g", "g", "e", "d" >> }

\* the cookies the site may set during the login
SiteCookies ==
    { << "s", "i", "d" >>, << "J", "W", "T" >>, << "c", "s", "r", "f" >> }

\* still_on_login = any(kw in url_lower for kw in _LOGIN_KEYWORDS)
still_on_login(url) == \E kw \in LoginKeywords : Contains(Lower(url), kw)

\* _root_domain(current_url) == _root_domain(original_url)
same_root(url, original) ==
    RootDomain(UrlParse(url).netloc) = RootDomain(UrlParse(original).netloc)

\* same_domain of _wait_for_login
same_domain(url, original) ==
    \/ UrlParse(url).netloc = UrlParse(original).netloc
    \/ same_root(url, original)

\* session_cookies: the cookies whose lower-cased name holds a pattern
session_cookies(jar) ==
    {name \in jar : \E kw \in SessionKeywords : Contains(Lower(name), kw)}

\* the tests above, computed once for the urls and the jars of the model
StillOnLogin == {u \in PollUrls : still_on_login(u)}

SameRoot == {p \in PollUrls \X LoginWalls : same_root(p[1], p[2])}

SameDomain == {p \in PollUrls \X LoginWalls : same_domain(p[1], p[2])}

SessionCookieCount == [jar \in SUBSET SiteCookies |-> Cardinality(session_cookies(jar))]

\* The tests of one poll: the login is declared complete.
poll_complete(kind, url, original, jar) ==
    IF kind = "AuthHandler"
    THEN \/ url \notin StillOnLogin /\ << url, original >> \in SameDomain
         \/ SessionCookieCount[jar] >= 2
    ELSE \/ /\ url \notin StillOnLogin
            /\ << url, original >> \in SameRoot
            /\ url # original
         \/ SessionCookieCount[jar] >= 2 /\ url \notin StillOnLogin

InitPoll ==
    /\ ScanIdle
    /\ NormIdle
    /\ JourneyIdle
    /\ StepIdle
    /\ VerifyIdle
    /\ AuthIdle
    /\ HeapIdle
    /\ PagingIdle
    /\ DetectIdle
    /\ RetryIdle
    /\ poller \in {"AuthHandler", "RemoteBrowserSession"}
    /\ original_url \in LoginWalls
    /\ current_url = original_url
    /\ session_jar \in {{}, {<< "c", "s", "r", "f" >>}}
    /\ enter_pressed = FALSE
    /\ polls = 0
    /\ login_declared = "none"
    /\ DiffIdle
    /\ VerdictIdle
    /\ PlanIdle
    /\ RemoteIdle
    /\ StreamIdle

pollFixed == << poller, original_url >>

\* The user navigates the login session.
UserNavigates ==
    /\ login_declared = "none"
    /\ \E url \in PollUrls \ {current_url} : current_url' = url
    /\ UNCHANGED << pollFixed, session_jar, enter_pressed, polls, login_declared >>
    /\ UNCHANGED notPollVars

\* The site sets a cookie in the login session.
SiteSetsCookie ==
    /\ login_declared = "none"
    /\ \E name \in SiteCookies \ session_jar : session_jar' = session_jar \cup {name}
    /\ UNCHANGED << pollFixed, current_url, enter_pressed, polls, login_declared >>
    /\ UNCHANGED notPollVars

\* The user presses Enter in the CLI: _listen_for_enter sets enter_pressed.
UserPressesEnter ==
    /\ poller = "AuthHandler"
    /\ login_declared = "none"
    /\ ~enter_pressed
    /\ enter_pressed' = TRUE
    /\ UNCHANGED << pollFixed, current_url, session_jar, polls, login_declared >>
    /\ UNCHANGED notPollVars

\* One turn of the loop of _wait_for_login
HandlerPoll ==
    /\ poller = "AuthHandler"
    /\ login_declared = "none"
    /\ polls < MaxPolls
    /\ IF enter_pressed
       THEN login_declared' = "confirmed" /\ UNCHANGED polls
       ELSE IF poll_complete(poller, current_url, original_url, session_jar)
       THEN login_declared' = "complete" /\ UNCHANGED polls
       ELSE polls' = polls + 1 /\ UNCHANGED login_declared
    /\ UNCHANGED << pollFixed, current_url, session_jar, enter_pressed >>
    /\ UNCHANGED notPollVars

\* _wait_for_login: page.url raises, the browser window was closed
HandlerPageClosed ==
    /\ poller = "AuthHandler"
    /\ login_declared = "none"
    /\ polls < MaxPolls
    /\ ~enter_pressed
    /\ login_declared' = "closed"
    /\ UNCHANGED << pollFixed, current_url, session_jar, enter_pressed, polls >>
    /\ UNCHANGED notPollVars

\* _wait_for_login: elapsed reached timeout_seconds
HandlerTimesOut ==
    /\ poller = "AuthHandler"
    /\ login_declared = "none"
    /\ polls >= MaxPolls
    /\ login_declared' = "timeout"
    /\ UNCHANGED << pollFixed, current_url, session_jar, enter_pressed, polls >>
    /\ UNCHANGED notPollVars

\* One turn of the loop of _login_detection_loop
RemotePoll ==
    /\ poller = "RemoteBrowserSession"
    /\ login_declared = "none"
    /\ polls < MaxPolls
    /\ IF poll_complete(poller, current_url, original_url, session_jar)
       THEN login_declared' = "complete" /\ UNCHANGED polls
       ELSE polls' = polls + 1 /\ UNCHANGED login_declared
    /\ UNCHANGED << pollFixed, current_url, session_jar, enter_pressed >>
    /\ UNCHANGED notPollVars

\* _login_detection_loop: the session is closed or stops streaming
RemoteClosed ==
    /\ poller = "RemoteBrowserSession"
    /\ login_declared = "none"
    /\ login_declared' = "closed"
    /\ UNCHANGED << pollFixed, current_url, session_jar, enter_pressed, polls >>
    /\ UNCHANGED notPollVars

NextPoll ==
    \/ UserNavigates
    \/ SiteSetsCookie
    \/ UserPressesEnter
    \/ HandlerPoll
    \/ HandlerPageClosed
    \/ HandlerTimesOut
    \/ RemotePoll
    \/ RemoteClosed

SpecPoll == InitPoll /\ [][NextPoll]_vars

\* The session url has left the login wall for a page of the same
\* registrable domain that is no login page.
LeftLoginWall ==
    /\ current_url # original_url
    /\ ~still_on_login(current_url)
    /\ same_root(current_url, original_url)

\* A poller declares the login complete only with two session cookies or on
\* a url of the same registrable domain other than the wall's.
DeclaresOnlyOffTheWall ==
    [][login_declared = "none" /\ login_declared' = "complete" =>
        \/ Cardinality(session_cookies(session_jar)) >= 2
        \/ current_url # original_url /\ same_root(current_url, original_url)
      ]_vars

\* A poll at which the session has left the wall or holds two session
\* cookies declares the login complete.
DeclaresWhenComplete ==
    [][polls' = polls + 1 =>
        /\ ~LeftLoginWall
        /\ Cardinality(session_cookies(session_jar)) < 2
      ]_vars

\* C30: without the user's confirmation a poll declares the login complete
\* exactly when the session url has left the login wall for the same
\* registrable domain or two session cookies exist, and never on the
\* original wall with fewer than two of them.
PollerDeclaresExactly ==
    [][ /\ login_declared = "none" /\ login_declared' = "complete" =>
            \/ Cardinality(session_cookies(session_jar)) >= 2
            \/ current_url # original_url /\ same_root(current_url, original_url)
        /\ polls' = polls + 1 =>
            /\ ~LeftLoginWall
            /\ Cardinality(session_cookies(session_jar)) < 2
      ]_vars

\* ---------------------------------------------------------------------
\* Termination of check_and_handle_login
\* (src/agent/utils/auth_handler.py:120-180, 258-332)

\* the wait of the remote hand-off ends: asyncio.wait_for(event.wait(),
\* timeout=60) returns or raises TimeoutError once the timer of the event
\* loop fires, and the except clause runs
WaitEnds == WaitReturns \/ WaitTimesOut \/ TimeoutSinkRaises

\* the headful login ends: the loop of _wait_for_login adds poll_interval
\* to elapsed on every round and leaves at timeout_seconds
HeadfulEnds == HeadfulSucceeds \/ HeadfulFails

\* the event loop runs the timer of wait_for and the sleep of every poll
SpecAuthFair == SpecAuth /\ WF_vars(WaitEnds) /\ WF_vars(HeadfulEnds)

\* the wait is over, by a result or by the exception of the sink
WaitIsOver == apc \in {"idle", "raised"}

\* every wait of the handler ends: no hand-off polls or waits forever
WaitNeverHangs == (apc \in {"waiting", "headful"}) ~> WaitIsOver

\* a wait that nobody answered and that returned gave an unsuccessful,
\* skipped result
UnansweredWaitSkipped ==
    [][(apc = "waiting" /\ ~event_is_set /\ apc' = "idle")
         => (~auth_result'.success /\ auth_result'.method = "skipped")]_vars

\* C31: check_and_handle_login always returns: a login wall that nobody
\* answers ends the remote wait and the headful poll with a result handed
\* back to the caller
CheckAndHandleLoginReturns == (apc \in {"waiting", "headful"}) ~> (apc = "idle")

\* ---------------------------------------------------------------------
\* The storage keys compare reports
\* (src/agent/utils/state_verifier.py:144-169)

\* the keys of a storage map that were added, removed, or whose value
\* differs between the two maps
ChangedKeys(before_map, after_map) ==
    {key \in DOMAIN before_map \cup DOMAIN after_map :
        \/ key \notin DOMAIN before_map
        \/ key \notin DOMAIN after_map
        \/ before_map[key] # after_map[key]}

\* what compare does report: every key added to localStorage, with its
\* value in the after snapshot
AddedLocalKeysReported ==
    vpc = "compared" =>
        \A key \in DOMAIN snap_after.local_storage \ DOMAIN snap_before.local_storage :
            /\ key \in DOMAIN state_change.storage_changes
            /\ state_change.storage_changes[key] = snap_after.local_storage[key]

\* C32: compare reports every changed storage key: each localStorage or
\* sessionStorage key added, removed, or with a different value between
\* the before and the after snapshot is a key of storage_changes
EveryChangedStorageKeyReported ==
    vpc = "compared" =>
        (ChangedKeys(snap_before.local_storage, snap_after.local_storage)
            \cup ChangedKeys(snap_before.session_storage,
                             snap_after.session_storage))
          \subseteq DOMAIN state_change.storage_changes

(***************************************************************************)
(* The state diff of a step result: the loop of FlowRunner._execute_flow   *)
(* (src/agent/core/flow_runner.py:100-185) and the loop of                 *)
(* QAAgent._execute_journey (src/agent/core/qa_agent.py:359-377), each     *)
(* over the steps of one flow.  state_changes is << >> for the None of     *)
(* FlowStepResult and a one-element sequence once a dict is assigned.      *)
(***************************************************************************)

\* the page states a step can leave
BrowserStates ==
    {[EmptySnapshot EXCEPT !.url = u, !.cookies = c, !.dom_hash = h] :
        u \in PageUrls, c \in {<< >>, << "sid" >>}, h \in DomHashes}

\* take_snapshot with no console or network error recorded
take_snapshot(page) == page

\* the dict FlowRunner builds from the StateChange of compare
StateChangesOf(change) ==
    [url_changed |-> change.url_changed,
     cookies_set |-> change.cookies_added,
     js_errors |-> Take(change.new_console_errors, 3),
     network_errors |->
        [i \in DOMAIN Take(change.new_network_errors, 3) |->
            change.new_network_errors[i].url],
     dom_changed |-> change.dom_changed]

\* FlowStepResult(step=..., status=..., ...): state_changes defaults to None
FlowStepResult(status) == [status |-> status, state_changes |-> << >>]

\* the statuses FlowRunner._execute_step returns
FlowRunnerStatuses == {"passed", "failed"}

InitDiff ==
    /\ ScanIdle
    /\ NormIdle
    /\ JourneyIdle
    /\ StepIdle
    /\ VerifyIdle
    /\ AuthIdle
    /\ HeapIdle
    /\ PagingIdle
    /\ DetectIdle
    /\ RetryIdle
    /\ PollIdle
    /\ exec_runner \in {"flow", "agent"}
    /\ browser \in BrowserStates
    /\ snapshot_before = EmptySnapshot
    /\ pending = << >>
    /\ exec_results = << >>
    /\ xpc = "loop"
    /\ VerdictIdle
    /\ PlanIdle
    /\ RemoteIdle
    /\ StreamIdle

\* FlowRunner: snapshot_before = take_snapshot(page) at the top of a round
FlowSnapshotBefore ==
    /\ exec_runner = "flow"
    /\ xpc = "loop"
    /\ Len(exec_results) < MaxSteps
    /\ snapshot_before' = take_snapshot(browser)
    /\ xpc' = "step"
    /\ UNCHANGED << exec_runner, browser, pending, exec_results >>
    /\ UNCHANGED notDiffVars

\* FlowRunner: step_result = _execute_step(...); step_results.append
FlowExecuteStep ==
    /\ exec_runner = "flow"
    /\ xpc = "step"
    /\ \E status \in FlowRunnerStatuses, page \in BrowserStates :
        /\ browser' = page
        /\ pending' = << FlowStepResult(status) >>
    /\ xpc' = "after"
    /\ UNCHANGED << exec_runner, snapshot_before, exec_results >>
    /\ UNCHANGED notDiffVars

\* FlowRunner: snapshot_after, compare, step_result.state_changes = {...}
FlowAttach ==
    /\ exec_runner = "flow"
    /\ xpc = "after"
    /\ exec_results' =
          Append(exec_results,
                 [pending[1] EXCEPT !.state_changes =
                    << StateChangesOf(compare(snapshot_before,
                                              take_snapshot(browser))) >>])
    /\ pending' = << >>
    /\ xpc' = "attached"
    /\ UNCHANGED << exec_runner, browser, snapshot_before >>
    /\ UNCHANGED notDiffVars

\* FlowRunner: a passed step goes on; a failed step ends the flow, or the
\* oracle recovers it, the step becomes skipped, _execute_recovery may
\* move the page, and the loop goes on
FlowContinue ==
    /\ exec_runner = "flow"
    /\ xpc = "attached"
    /\ \/ /\ exec_results[Len(exec_results)].status = "passed"
          /\ xpc' = "loop"
          /\ UNCHANGED << browser, exec_results >>
       \/ /\ exec_results[Len(exec_results)].status = "failed"
          /\ xpc' = "done"
          /\ UNCHANGED << browser, exec_results >>
       \/ /\ exec_results[Len(exec_results)].status = "failed"
          /\ \E page \in BrowserStates : browser' = page
          /\ exec_results' =
                [exec_results EXCEPT ![Len(exec_results)].status = "skipped"]
          /\ xpc' = "loop"
    /\ UNCHANGED << exec_runner, snapshot_before, pending >>
    /\ UNCHANGED notDiffVars

\* QAAgent: step_result = _execute_step(...); step_results.append; a
\* failed or blocked step ends the journey
AgentExecuteStep ==
    /\ exec_runner = "agent"
    /\ xpc = "loop"
    /\ Len(exec_results) < MaxSteps
    /\ \E status \in StepStatuses(TRUE), page \in BrowserStates :
        /\ browser' = page
        /\ exec_results' = Append(exec_results, FlowStepResult(status))
        /\ xpc' = IF status \in {"failed", "blocked"} THEN "done" ELSE "loop"
    /\ UNCHANGED << exec_runner, snapshot_before, pending >>
    /\ UNCHANGED notDiffVars

\* the steps of the flow are exhausted
StepsExhausted ==
    /\ xpc = "loop"
    /\ Len(exec_results) = MaxSteps
    /\ xpc' = "done"
    /\ UNCHANGED << exec_runner, browser, snapshot_before, pending,
                    exec_results >>
    /\ UNCHANGED notDiffVars

NextDiff ==
    \/ FlowSnapshotBefore
    \/ FlowExecuteStep
    \/ FlowAttach
    \/ FlowContinue
    \/ AgentExecuteStep
    \/ StepsExhausted

SpecDiff == InitDiff /\ [][NextDiff]_vars

\* a step result of FlowRunner carries the diff of the snapshots taken
\* around its step
FlowRunnerAttachesDiff ==
    (exec_runner = "flow" /\ xpc = "attached") =>
        exec_results[Len(exec_results)].state_changes =
            << StateChangesOf(compare(snapshot_before, take_snapshot(browser))) >>

\* every step result of FlowRunner carries a diff
FlowRunnerResultsCarryDiff ==
    exec_runner = "flow" =>
        \A i \in DOMAIN exec_results : exec_results[i].state_changes # << >>

\* C33: every step result the step executor produced carries a State
\* Verifier diff, whatever its status: passed, failed, blocked or skipped
EveryStepResultCarriesDiff ==
    \A i \in DOMAIN exec_results : exec_results[i].state_changes # << >>

(***************************************************************************)
(* The verdict of the oracle for one step: AIEngine._call                  *)
(* (src/agent/core/ai_engine.py:83-125), AIEngine.verify_step (426-460)    *)
(* and the verification of QAAgent._execute_step                           *)
(* (src/agent/core/qa_agent.py:507-521), with GEMINI_API_KEY set.  A       *)
(* Python value is a record with its type; a dict is a function of its     *)
(* keys.                                                                   *)
(***************************************************************************)

\* the most issues one verdict lists
MaxIssues == 1

\* the values of the key status a reply can hold
ReplyStatuses == {"passed", "failed", "blocked", "inconclusive", "maybe"}

\* a JSON object with the given keys
Dict(keys, status, issues) ==
    [k \in keys |->
        CASE k = "status" -> status
          [] k = "reason" -> "reason"
          [] k = "issues" -> issues
          [] k = "notes" -> "notes"]

\* the JSON objects a reply can hold, with and without the key status
ReplyDicts ==
    {Dict(keys, status, issues) :
        keys \in {{"status", "reason", "issues"}, {"status"},
                  {"reason", "issues"}, {"notes"}, {}},
        status \in ReplyStatuses,
        issues \in ListsOf({"issue"}, MaxIssues)}

\* the bodies of a reply text: no JSON, or a JSON list, string or object
ReplyBodies ==
    {[json |-> "garbage"], [json |-> "list"], [json |-> "string"]}
    \cup {[json |-> "dict", value |-> d] : d \in ReplyDicts}

\* the text is the body alone, the body in a ``` fence, or prose and then
\* the fenced body
ReplyLayouts == {"bare", "fenced", "prose_fenced"}

\* generate_content raises, outlasts the 60 seconds of wait_for, returns a
\* response without text, or returns a text
OracleReplies ==
    {[kind |-> k] : k \in {"raises", "timeout", "no_text"}}
    \cup {[kind |-> "text", layout |-> l, body |-> b] :
            l \in ReplyLayouts, b \in ReplyBodies}

PyNone == [type |-> "none"]

PyDict(d) == [type |-> "dict", value |-> d]

\* json.loads(cleaned), or {"raw": cleaned} on JSONDecodeError: cleaned is
\* the text without a fence it starts and ends with; prose before the
\* fence stays and no JSON document starts with prose
json_loads_or_raw(layout, body) ==
    IF layout = "prose_fenced" \/ body.json = "garbage"
    THEN PyDict([k \in {"raw"} |-> "cleaned"])
    ELSE IF body.json = "dict" THEN PyDict(body.value)
    ELSE [type |-> body.json]

\* AIEngine._call(parts) with expect_json
call(reply) ==
    IF reply.kind \in {"raises", "timeout", "no_text"}
    THEN PyNone
    ELSE json_loads_or_raw(reply.layout, reply.body)

\* verify_step that takes a missing verdict for a pass.
verify_step_default_passed(result) ==
    IF result.type = "dict" /\ "status" \in DOMAIN result.value
    THEN result.value
    ELSE [k \in {"status", "reason"} |->
            IF k = "status" THEN "passed"
            ELSE "AI verification unavailable"]

\* the end of AIEngine.verify_step: the result of _call when it is a dict
\* with the key status, else the inconclusive verdict
verify_step(result) ==
    IF result.type = "dict" /\ "status" \in DOMAIN result.value
    THEN result.value
    ELSE [k \in {"status", "reason"} |->
            IF k = "status" THEN "inconclusive"
            ELSE "AI verification unavailable"]

\* result.get(key, default)
Get(d, key, default) == IF key \in DOMAIN d THEN d[key] ELSE default

InitVerdict ==
    /\ ScanIdle
    /\ NormIdle
    /\ JourneyIdle
    /\ StepIdle
    /\ VerifyIdle
    /\ AuthIdle
    /\ HeapIdle
    /\ PagingIdle
    /\ DetectIdle
    /\ RetryIdle
    /\ PollIdle
    /\ DiffIdle
    /\ oracle_reply \in OracleReplies
    /\ call_result = PyNone
    /\ verify_result = << >>
    /\ verdict = [status |-> "passed", error |-> "none"]
    /\ opc = "start"
    /\ PlanIdle
    /\ RemoteIdle
    /\ StreamIdle

\* result = await self._call(parts)
CallOracle ==
    /\ opc = "start"
    /\ call_result' = call(oracle_reply)
    /\ opc' = "called"
    /\ UNCHANGED << oracle_reply, verify_result, verdict >>
    /\ UNCHANGED notVerdictVars

\* verify_step returns its dict
VerifyStepReturns ==
    /\ opc = "called"
    /\ verify_result' = verify_step(call_result)
    /\ opc' = "verified"
    /\ UNCHANGED << oracle_reply, call_result, verdict >>
    /\ UNCHANGED notVerdictVars

\* status = result.get("status", "inconclusive"); error = result.get(
\* "reason", ""); the issues are strings of a list and are noted
TakeVerdict ==
    /\ opc = "verified"
    /\ verdict' = [status |-> Get(verify_result, "status", "inconclusive"),
                   error |-> Get(verify_result, "reason", "")]
    /\ opc' = "done"
    /\ UNCHANGED << oracle_reply, call_result, verify_result >>
    /\ UNCHANGED notVerdictVars

NextVerdict ==
    \/ CallOracle
    \/ VerifyStepReturns
    \/ TakeVerdict

SpecVerdict == InitVerdict /\ [][NextVerdict]_vars

\* the reply holds no verdict: the call failed, timed out or gave no text,
\* or the text is no JSON document, or the document is no object with the
\* key status
NoVerdict(reply) ==
    \/ reply.kind \in {"raises", "timeout", "no_text"}
    \/ /\ reply.kind = "text"
       /\ \/ reply.layout = "prose_fenced"
          \/ reply.body.json # "dict"
          \/ /\ reply.body.json = "dict"
             /\ "status" \notin DOMAIN reply.body.value

\* C34: with the oracle configured, a verification whose reply is
\* unparseable, lacks the key status, or whose call fails or times out
\* gives the step the status inconclusive
MissingVerdictIsInconclusive ==
    (opc = "done" /\ NoVerdict(oracle_reply)) =>
        verdict.status = "inconclusive"

\* a reply that parses to an object without the key status has been taken
UnkeyedReplyTaken ==
    /\ opc = "done"
    /\ oracle_reply.kind = "text"
    /\ oracle_reply.layout = "fenced"
    /\ oracle_reply.body.json = "dict"
    /\ DOMAIN oracle_reply.body.value = {"reason", "issues"}

\* a reply with a verdict is taken as it is
VerdictIsTaken ==
    (opc = "done" /\ ~NoVerdict(oracle_reply)) =>
        verdict.status = oracle_reply.body.value["status"]

\* ---------------------------------------------------------------------
\* Admission of the nodes of the graph
\* (src/agent/core/explorer.py:585-608, src/agent/core/qa_agent.py:673-681)

\* _is_allowed of the engine of the scan
IsAllowed(url) ==
    IF engine = "explorer" THEN ExplorerIsAllowed(url) ELSE AgentIsAllowed(url)

\* every node but the seed is the canonical form of an address that passed
\* _is_allowed
NodeIsCanonicalOfAdmitted ==
    \A u \in DOMAIN nodes \ {base_url} :
        \E h \in Hrefs : IsAllowed(h) /\ NormalizeOf[h] = u

\* C35: every node of the graph but the seed has a url that passes the
\* admission policy of the scan: same host or same registrable root as the
\* seed, no skipped extension at the end of the path, no excluded pattern
NonSeedNodesAdmitted ==
    \A u \in DOMAIN nodes \ {base_url} : IsAllowed(u)

\* ---------------------------------------------------------------------
\* The logged-in state across the login walls of one scan
\* (src/agent/core/qa_agent.py:210-217, src/agent/utils/auth_handler.py:123-138)

\* a page that is no login wall leaves the logged-in state as it is
NoWallKeepsLogin ==
    [][(auth_result' = NoAuthResult) => (auth_logged_in' = auth_logged_in)]_vars

\* C37: once a login has succeeded, the logged-in state of QAAgent is
\* never reset to false by a later page visit, a later login wall included
LoggedInNeverReset == [][auth_logged_in => auth_logged_in']_vars

(***************************************************************************)
(* The flow planner: identify_flows and _heuristic_flows                   *)
(* (src/agent/core/flow_planner.py:197-358).  A node is held by what the   *)
(* heuristics read of it: whether its url is the root url, whether its url *)
(* holds a login keyword, its page_type and the type and text of its       *)
(* elements.                                                               *)
(***************************************************************************)

\* the most visited nodes of a graph
MaxPlanNodes == 4

\* the most flows the model proposes
MaxOracleFlows == 2

\* the cap and the floor of _heuristic_flows and the cap of identify_flows
FlowCap == 8

FlowFloor == 5

\* the first visited nodes that get a navigation flow
NavigationNodes == 3

PlanElement(type, text) == [type |-> type, text |-> text]

PlanNode(is_root, login_url, page_type, elements) ==
    [is_root |-> is_root, login_url |-> login_url, page_type |-> page_type,
     elements |-> elements]

\* the start page, when it was visited: the first node of the dict
RootNodes ==
    {PlanNode(TRUE, FALSE, "home", << >>),
     PlanNode(TRUE, FALSE, "home",
              << PlanElement("search", "Search"), PlanElement("nav", "English") >>)}

\* the other pages
InnerNodes ==
    {PlanNode(FALSE, FALSE, "other", << >>),
     PlanNode(FALSE, FALSE, "search",
              << PlanElement("search", "Search"), PlanElement("nav_link", "Home") >>),
     PlanNode(FALSE, TRUE, "other", << PlanElement("form", "Form with 2 field(s)") >>),
     PlanNode(FALSE, FALSE, "other", << PlanElement("form", "login") >>),
     PlanNode(FALSE, FALSE, "form", << PlanElement("form", "Subscribe") >>),
     PlanNode(FALSE, FALSE, "content", << PlanElement("nav", "Contents") >>)}

\* the lists of visited nodes: the root, if visited, comes first
PlanGraphs ==
    {l \in ListsOf(RootNodes \cup InnerNodes, MaxPlanNodes) :
        \A i \in DOMAIN l : l[i] \in RootNodes => i = 1}

Flow(name, priority, steps) ==
    [name |-> name, priority |-> priority, steps |-> steps]

HasElement(node, type) == \E i \in DOMAIN node.elements : node.elements[i].type = type

\* "login" in text.lower() or "sign in" in text.lower(), for the texts of
\* the elements above
TextHasLogin(text) == text = "login"

\* 2. has_login of a node
HasLogin(node) ==
    \/ node.login_url
    \/ node.page_type = "login"
    \/ \E i \in DOMAIN node.elements :
        node.elements[i].type = "form" /\ TextHasLogin(node.elements[i].text)

\* 5. content_types is not empty
HasContent(visited_nodes) ==
    \E i \in DOMAIN visited_nodes :
        \E j \in DOMAIN visited_nodes[i].elements :
            \/ visited_nodes[i].elements[j].type \in {"nav", "link"}
            \/ visited_nodes[i].page_type \in {"content", "article"}

\* 6. a form on a page that is no login page
HasPlainForm(node) ==
    /\ HasElement(node, "form")
    /\ ~(node.login_url \/ node.page_type = "login")

SeqIf(cond, seq) == IF cond THEN seq ELSE << >>

\* 4. one navigation flow for each of the first three visited nodes that
\* is not the root
RECURSIVE NavigationFlows(_, _)
NavigationFlows(visited_nodes, i) ==
    IF i > Len(visited_nodes) \/ i > NavigationNodes THEN << >>
    ELSE SeqIf(~visited_nodes[i].is_root,
               << Flow("Navigate to page", 3, << "navigate", "click" >>) >>)
         \o NavigationFlows(visited_nodes, i + 1)

\* the flows of the rules 1 to 7, in their order
RuleFlows(visited_nodes) ==
    SeqIf(\E i \in DOMAIN visited_nodes : HasElement(visited_nodes[i], "search"),
          << Flow("Search", 1, << "navigate", "search" >>) >>)
    \o SeqIf(\E i \in DOMAIN visited_nodes : HasLogin(visited_nodes[i]),
             << Flow("Login", 2, << "navigate", "fill_form" >>) >>)
    \o << Flow("Browse Homepage", 2, << "navigate", "verify" >>) >>
    \o NavigationFlows(visited_nodes, 1)
    \o SeqIf(HasContent(visited_nodes),
             << Flow("Click First Content Item", 3, << "navigate", "click" >>) >>)
    \o SeqIf(\E i \in DOMAIN visited_nodes : HasPlainForm(visited_nodes[i]),
             << Flow("Submit Form", 3, << "navigate", "fill_form" >>) >>)
    \o SeqIf(Len(visited_nodes) >= 3,
             << Flow("Multi-Level Navigation", 4,
                     << "navigate", "click", "click" >>) >>)

\* while len(flows) < 5: flows.append(Browse Flow n)
RECURSIVE PadFlows(_)
PadFlows(flows) ==
    IF Len(flows) >= FlowFloor THEN flows
    ELSE PadFlows(Append(flows, Flow("Browse Flow", 4, << "navigate", "click" >>)))

\* _heuristic_flows without the cut at the end.
heuristic_flows_uncut(visited_nodes) == PadFlows(RuleFlows(visited_nodes))

\* _heuristic_flows(graph)
heuristic_flows(visited_nodes) == Take(PadFlows(RuleFlows(visited_nodes)), FlowCap)

\* flows.sort(key=priority), a stable sort
RECURSIVE SortByPriority(_)
SortByPriority(flows) ==
    IF flows = << >> THEN << >>
    ELSE LET low == CHOOSE i \in DOMAIN flows :
                        /\ \A j \in DOMAIN flows : flows[i].priority <= flows[j].priority
                        /\ \A j \in 1..(i - 1) : flows[j].priority > flows[i].priority
         IN  << flows[low] >>
             \o SortByPriority([k \in 1..(Len(flows) - 1) |->
                                   IF k < low THEN flows[k] ELSE flows[k + 1]])

\* the flows _parse_flows_response keeps: each has a name and a step
OracleFlows ==
    {l \in ListsOf({Flow("Checkout", p, << "navigate" >>) : p \in 1..2},
                   MaxOracleFlows) : l # << >>}

\* no key; the import, the call or the parse raises; the call returns no
\* text; the text holds no flow with a name and a step; or it holds flows
PlanReplies ==
    {[kind |-> k] : k \in {"no_key", "raises", "nothing", "no_flow"}}
    \cup {[kind |-> "flows", flows |-> l] : l \in OracleFlows}

InitPlan ==
    /\ ScanIdle
    /\ NormIdle
    /\ JourneyIdle
    /\ StepIdle
    /\ VerifyIdle
    /\ AuthIdle
    /\ HeapIdle
    /\ PagingIdle
    /\ DetectIdle
    /\ RetryIdle
    /\ PollIdle
    /\ DiffIdle
    /\ VerdictIdle
    /\ plan_nodes \in PlanGraphs
    /\ plan_reply \in PlanReplies
    /\ planned = << >>
    /\ ppc = "start"
    /\ RemoteIdle
    /\ StreamIdle

\* if not api_key: return _heuristic_flows(graph)
PlanWithoutKey ==
    /\ ppc = "start"
    /\ plan_reply.kind = "no_key"
    /\ planned' = heuristic_flows(plan_nodes)
    /\ ppc' = "done"
    /\ UNCHANGED << plan_nodes, plan_reply >>
    /\ UNCHANGED notPlanVars

\* the try block raised or fell through: return _heuristic_flows(graph)
PlanFallsBack ==
    /\ ppc = "start"
    /\ plan_reply.kind \in {"raises", "nothing", "no_flow"}
    /\ planned' = heuristic_flows(plan_nodes)
    /\ ppc' = "done"
    /\ UNCHANGED << plan_nodes, plan_reply >>
    /\ UNCHANGED notPlanVars

\* flows.sort(key=lambda f: f.priority); return flows[:8]
PlanFromOracle ==
    /\ ppc = "start"
    /\ plan_reply.kind = "flows"
    /\ planned' = Take(SortByPriority(plan_reply.flows), FlowCap)
    /\ ppc' = "done"
    /\ UNCHANGED << plan_nodes, plan_reply >>
    /\ UNCHANGED notPlanVars

NextPlan ==
    \/ PlanWithoutKey
    \/ PlanFallsBack
    \/ PlanFromOracle

SpecPlan == InitPlan /\ [][NextPlan]_vars

\* the flows of the model are returned by ascending priority
OracleFlowsByPriority ==
    (ppc = "done" /\ plan_reply.kind = "flows") =>
        /\ Len(planned) = Len(plan_reply.flows)
        /\ \A i, j \in DOMAIN planned :
            i < j => planned[i].priority <= planned[j].priority

\* C36: without a key, or when the model call raises, returns nothing or
\* returns no usable flow, identify_flows returns the heuristic flows of
\* the graph: between 5 and 8 flows, each with at least one step
DegradesToHeuristicFlows ==
    (ppc = "done" /\ plan_reply.kind # "flows") =>
        /\ planned = heuristic_flows(plan_nodes)
        /\ Len(planned) >= FlowFloor
        /\ Len(planned) <= FlowCap
        /\ \A i \in DOMAIN planned : Len(planned[i].steps) >= 1

\* the model call raised on a graph whose rules give nine flows
FellBackWithNineRuleFlows ==
    /\ ppc = "done"
    /\ plan_reply.kind = "raises"
    /\ Len(RuleFlows(plan_nodes)) = 9

\* the key is missing and the graph has no visited node: four flows are
\* padded
PaddedWithoutKey ==
    /\ ppc = "done"
    /\ plan_reply.kind = "no_key"
    /\ plan_nodes = << >>

\* ---------------------------------------------------------------------
\* The inbound edge of a discovered node
\* (src/agent/core/explorer.py:370-392, src/agent/core/qa_agent.py:596-658,
\* src/agent/models/graph.py:93-101)

\* the nodes reachable from the urls in from along the recorded edges
RECURSIVE ReachableFrom(_)
ReachableFrom(from) ==
    LET next == from \cup {e[2] : e \in {x \in edges : x[1] \in from}}
    IN  IF next = from THEN from ELSE ReachableFrom(next)

\* url has an edge from a node one level above it
HasParentEdge(url) ==
    \E e \in edges :
        /\ e[2] = url
        /\ e[1] \in DOMAIN nodes
        /\ nodes[e[1]].depth + 1 = nodes[url].depth

\* every node is reachable from the seed along the recorded edges
ReachableFromSeed == DOMAIN nodes \subseteq ReachableFrom({base_url})

\* C38: every node but the seed has an inbound edge from its discoverer,
\* a node whose depth is one less, from its creation on, and so every
\* node is reachable from the seed at every point of the scan
NonSeedNodeHasParentEdge ==
    /\ \A url \in DOMAIN nodes \ {base_url} : HasParentEdge(url)
    /\ ReachableFromSeed

\* a node two levels below the seed has been discovered
NodeAtDepthTwo == \E url \in DOMAIN nodes : nodes[url].depth = 2

(***************************************************************************)
(* The remote browser sessions of one scan of the backend: auth_start,     *)
(* _run_remote_browser, auth_done and the end of run_scan                  *)
(* (src/backend/app/main.py:230-384), with start, close and _finalize_auth *)
(* of RemoteBrowserSession (src/backend/app/remote_browser.py:43-159).     *)
(* The coroutines run on one event loop: a step is the code between two    *)
(* awaits that suspend.                                                    *)
(***************************************************************************)

\* the most sessions one scan starts
MaxSessions == 2

NoSession == 0

SessionIds == 1..MaxSessions

\* RemoteBrowserSession(...): no browser yet, _closed and _auth_success
\* false
NewSession == [browser |-> "none", closed |-> FALSE, authenticated |-> FALSE]

InitRemote ==
    /\ ScanIdle
    /\ NormIdle
    /\ JourneyIdle
    /\ StepIdle
    /\ VerifyIdle
    /\ AuthIdle
    /\ HeapIdle
    /\ PagingIdle
    /\ DetectIdle
    /\ RetryIdle
    /\ PollIdle
    /\ DiffIdle
    /\ VerdictIdle
    /\ PlanIdle
    /\ scan_state = "running"
    /\ login_url_known = FALSE
    /\ registry = NoSession
    /\ sessions = << >>
    /\ runner_pc = << >>
    /\ done_pc = "idle"
    /\ done_session = NoSession
    /\ StreamIdle

\* on_progress of run_scan on auth_required: the login url is stored
ScanRequiresAuth ==
    /\ scan_state = "running"
    /\ ~login_url_known
    /\ login_url_known' = TRUE
    /\ UNCHANGED << scan_state, registry, sessions, runner_pc, done_pc,
                    done_session >>
    /\ UNCHANGED notRemoteVars

\* auth_start: a login url is known and no session is registered; the
\* session is created and registered and its runner task is added
AuthStart ==
    /\ login_url_known
    /\ registry = NoSession
    /\ Len(sessions) < MaxSessions
    /\ sessions' = Append(sessions, NewSession)
    /\ runner_pc' = Append(runner_pc, "start")
    /\ registry' = Len(sessions) + 1
    /\ UNCHANGED << scan_state, login_url_known, done_pc, done_session >>
    /\ UNCHANGED notRemoteVars

\* session.start() returns: the browser is open and the two loops run
RunnerStarts(k) ==
    /\ runner_pc[k] = "start"
    /\ sessions' = [sessions EXCEPT ![k].browser = "open"]
    /\ runner_pc' = [runner_pc EXCEPT ![k] = "loop"]
    /\ UNCHANGED << scan_state, login_url_known, registry, done_pc,
                    done_session >>
    /\ UNCHANGED notRemoteVars

\* session.start() raises, before or after the launch of the browser:
\* auth_error is broadcast and the finally clause runs
RunnerStartRaises(k) ==
    /\ runner_pc[k] = "start"
    /\ \E b \in {"none", "open"} :
        sessions' = [sessions EXCEPT ![k].browser = b]
    /\ runner_pc' = [runner_pc EXCEPT ![k] = "finally"]
    /\ UNCHANGED << scan_state, login_url_known, registry, done_pc,
                    done_session >>
    /\ UNCHANGED notRemoteVars

\* _login_detection_loop of an open session that is not closed:
\* _finalize_auth sets _auth_success
DetectLogin(k) ==
    /\ sessions[k].browser = "open"
    /\ ~sessions[k].closed
    /\ ~sessions[k].authenticated
    /\ sessions' = [sessions EXCEPT ![k].authenticated = TRUE]
    /\ UNCHANGED << scan_state, login_url_known, registry, runner_pc, done_pc,
                    done_session >>
    /\ UNCHANGED notRemoteVars

\* while not session.is_authenticated and scan_id in _remote_browsers:
\* the test fails and the loop is left
RunnerLeavesLoop(k) ==
    /\ runner_pc[k] = "loop"
    /\ sessions[k].authenticated \/ registry = NoSession
    /\ runner_pc' = [runner_pc EXCEPT ![k] = "finally"]
    /\ UNCHANGED << scan_state, login_url_known, registry, sessions, done_pc,
                    done_session >>
    /\ UNCHANGED notRemoteVars

\* finally, with the scan in the registry: session.close() sets _closed
\* and suspends
RunnerCloseBegins(k) ==
    /\ runner_pc[k] = "finally"
    /\ registry # NoSession
    /\ sessions' = [sessions EXCEPT ![k].closed = TRUE]
    /\ runner_pc' = [runner_pc EXCEPT ![k] = "closing"]
    /\ UNCHANGED << scan_state, login_url_known, registry, done_pc,
                    done_session >>
    /\ UNCHANGED notRemoteVars

\* close() shuts the browser down, or raises on a browser already shut
\* and the except clause passes; the entry of the scan is popped
RunnerCloseEnds(k) ==
    /\ runner_pc[k] = "closing"
    /\ sessions' =
        [sessions EXCEPT ![k].browser =
            IF sessions[k].browser = "open" THEN "shut" ELSE @]
    /\ registry' = NoSession
    /\ runner_pc' = [runner_pc EXCEPT ![k] = "done"]
    /\ UNCHANGED << scan_state, login_url_known, done_pc, done_session >>
    /\ UNCHANGED notRemoteVars

\* finally, with the scan no longer in the registry: nothing is closed
RunnerSkipsClose(k) ==
    /\ runner_pc[k] = "finally"
    /\ registry = NoSession
    /\ runner_pc' = [runner_pc EXCEPT ![k] = "done"]
    /\ UNCHANGED << scan_state, login_url_known, registry, sessions, done_pc,
                    done_session >>
    /\ UNCHANGED notRemoteVars

\* auth_done: session = _remote_browsers.get(scan_id) is a session and
\* get_cookies suspends
DoneBegins ==
    /\ done_pc = "idle"
    /\ registry # NoSession
    /\ done_session' = registry
    /\ done_pc' = "cookies"
    /\ UNCHANGED << scan_state, login_url_known, registry, sessions, runner_pc >>
    /\ UNCHANGED notRemoteVars

\* auth_done: the cookies are stored, the event is set, auth_complete is
\* broadcast, and session.close() sets _closed and suspends
DoneCloseBegins ==
    /\ done_pc = "cookies"
    /\ sessions' = [sessions EXCEPT ![done_session].closed = TRUE]
    /\ done_pc' = "closing"
    /\ UNCHANGED << scan_state, login_url_known, registry, runner_pc,
                    done_session >>
    /\ UNCHANGED notRemoteVars

\* auth_done: close() shuts the browser down and the entry of the scan is
\* popped; on a browser already shut close() raises and the request ends
\* before the pop
DoneCloseEnds ==
    /\ done_pc = "closing"
    /\ IF sessions[done_session].browser = "shut"
       THEN UNCHANGED << sessions, registry >>
       ELSE /\ sessions' =
                [sessions EXCEPT ![done_session].browser =
                    IF @ = "open" THEN "shut" ELSE @]
            /\ registry' = NoSession
    /\ done_pc' = "idle"
    /\ done_session' = NoSession
    /\ UNCHANGED << scan_state, login_url_known, runner_pc >>
    /\ UNCHANGED notRemoteVars

\* the end of run_scan: _remote_browsers.pop(scan_id, None)
ScanEnds ==
    /\ scan_state = "running"
    /\ scan_state' = "over"
    /\ registry' = NoSession
    /\ UNCHANGED << login_url_known, sessions, runner_pc, done_pc, done_session >>
    /\ UNCHANGED notRemoteVars

NextRemote ==
    \/ ScanRequiresAuth
    \/ AuthStart
    \/ \E k \in DOMAIN sessions : RunnerStarts(k)
    \/ \E k \in DOMAIN sessions : RunnerStartRaises(k)
    \/ \E k \in DOMAIN sessions : DetectLogin(k)
    \/ \E k \in DOMAIN sessions : RunnerLeavesLoop(k)
    \/ \E k \in DOMAIN sessions : RunnerCloseBegins(k)
    \/ \E k \in DOMAIN sessions : RunnerCloseEnds(k)
    \/ \E k \in DOMAIN sessions : RunnerSkipsClose(k)
    \/ DoneBegins
    \/ DoneCloseBegins
    \/ DoneCloseEnds
    \/ ScanEnds

SpecRemote == InitRemote /\ [][NextRemote]_vars

\* one step of the runner task of session k
RunnerStep(k) ==
    \/ RunnerStarts(k)
    \/ RunnerStartRaises(k)
    \/ RunnerLeavesLoop(k)
    \/ RunnerCloseBegins(k)
    \/ RunnerCloseEnds(k)
    \/ RunnerSkipsClose(k)

\* the event loop runs every task that can run: the runner of each
\* session and a request in flight; the scan comes to its end.  When the
\* user logs in or asks for a session is left open.
SpecRemoteFair ==
    /\ SpecRemote
    /\ \A k \in SessionIds : WF_vars(k \in DOMAIN sessions /\ RunnerStep(k))
    /\ WF_vars(DoneCloseBegins \/ DoneCloseEnds)
    /\ WF_vars(ScanEnds)

\* the session has a browser that was launched and not shut down
BrowserOpen(k) == k \in DOMAIN sessions /\ sessions[k].browser = "open"

\* C39: every remote browser session started for a scan is eventually
\* closed, its browser shut down, under every interleaving of the login
\* detection, the auth_done request, the runner task and the end of the
\* scan
EverySessionEventuallyClosed ==
    \A k \in SessionIds : BrowserOpen(k) ~> ~BrowserOpen(k)

\* no session leaves the registry with its browser open unless a close of
\* it is under way
NoSessionDroppedOpen ==
    \A k \in DOMAIN sessions :
        (BrowserOpen(k) /\ registry # k) => sessions[k].closed

(***************************************************************************)
(* The event stream of one scan: scan_stream, _broadcast_event and the end *)
(* of run_scan (src/backend/app/main.py:106-150, 323-330, 366-384).  A     *)
(* queue is an unbounded asyncio.Queue; None is the item "None".  The      *)
(* keepalive a generator yields after 30 seconds without an event changes  *)
(* nothing and is no step.                                                 *)
(***************************************************************************)

\* the most stream requests of one scan
MaxSubscribers == 2

\* the most events one scan broadcasts
MaxEvents == 2

\* the end-of-stream item run_scan puts
Sentinel == "None"

\* the event types the scan broadcasts: scan_complete comes from the
\* agent, once for each viewport
EventTypes == {"page_complete", "scan_complete"}

\* scan_stream: queue = asyncio.Queue(), appended to the list of the scan
NewSubscriber(after_end) ==
    [queue |-> << >>, registered |-> TRUE, state |-> "open",
     late |-> after_end, last |-> "none"]

\* q.put_nowait(item) for every queue in the list of the scan
PutAll(subs, item) ==
    [i \in DOMAIN subs |->
        IF subs[i].registered
        THEN [subs[i] EXCEPT !.queue = Append(@, item)]
        ELSE subs[i]]

InitStream ==
    /\ ScanIdle
    /\ NormIdle
    /\ JourneyIdle
    /\ StepIdle
    /\ VerifyIdle
    /\ AuthIdle
    /\ HeapIdle
    /\ PagingIdle
    /\ DetectIdle
    /\ RetryIdle
    /\ PollIdle
    /\ DiffIdle
    /\ VerdictIdle
    /\ PlanIdle
    /\ RemoteIdle
    /\ stream_scan = "running"
    /\ subscribers = << >>
    /\ emitted = 0

\* scan_stream: the scan is known, whatever its status
Subscribe ==
    /\ Len(subscribers) < MaxSubscribers
    /\ subscribers' = Append(subscribers, NewSubscriber(stream_scan = "over"))
    /\ UNCHANGED << stream_scan, emitted >>
    /\ UNCHANGED notStreamVars

\* _broadcast_event from on_progress of the running scan
Broadcast ==
    /\ stream_scan = "running"
    /\ emitted < MaxEvents
    /\ \E type \in EventTypes : subscribers' = PutAll(subscribers, type)
    /\ emitted' = emitted + 1
    /\ UNCHANGED stream_scan
    /\ UNCHANGED notStreamVars

\* the end of run_scan: None is put on every queue of the list
ScanOver ==
    /\ stream_scan = "running"
    /\ stream_scan' = "over"
    /\ subscribers' = PutAll(subscribers, Sentinel)
    /\ UNCHANGED emitted
    /\ UNCHANGED notStreamVars

\* event_generator: queue.get() returns an item; None and scan_complete
\* end the stream and the finally clause removes the queue from the list
Receive(i) ==
    /\ subscribers[i].state = "open"
    /\ subscribers[i].queue # << >>
    /\ LET item == Head(subscribers[i].queue)
           ends == item \in {Sentinel, "scan_complete"}
       IN  subscribers' =
             [subscribers EXCEPT
                ![i].queue = Tail(@),
                ![i].last = item,
                ![i].state = IF ends THEN "ended" ELSE @,
                ![i].registered = IF ends THEN FALSE ELSE @]
    /\ UNCHANGED << stream_scan, emitted >>
    /\ UNCHANGED notStreamVars

\* event_generator: request.is_disconnected(); the finally clause removes
\* the queue from the list
Disconnect(i) ==
    /\ subscribers[i].state = "open"
    /\ subscribers' =
         [subscribers EXCEPT ![i].state = "gone", ![i].registered = FALSE]
    /\ UNCHANGED << stream_scan, emitted >>
    /\ UNCHANGED notStreamVars

NextStream ==
    \/ Subscribe
    \/ Broadcast
    \/ ScanOver
    \/ \E i \in DOMAIN subscribers : Receive(i)
    \/ \E i \in DOMAIN subscribers : Disconnect(i)

SpecStream == InitStream /\ [][NextStream]_vars

\* the event loop runs every generator whose queue holds an item, and the
\* scan comes to its end; whether a client subscribes or disconnects is
\* left open
SpecStreamFair ==
    /\ SpecStream
    /\ \A i \in 1..MaxSubscribers :
        WF_vars(i \in DOMAIN subscribers /\ Receive(i))
    /\ WF_vars(ScanOver)

\* subscriber i is connected and has received no terminating item
Waiting(i) == i \in DOMAIN subscribers /\ subscribers[i].state = "open"

\* a subscriber of the running scan receives a terminating item, or
\* disconnects, once the scan is over
EarlySubscriberTerminated ==
    \A i \in 1..MaxSubscribers :
        (Waiting(i) /\ ~subscribers[i].late) ~> ~Waiting(i)

\* a broadcast reaches every registered queue at once: no queue is
\* bounded, so no put waits or is dropped
BroadcastNeverBlocks ==
    [][\A i \in DOMAIN subscribers :
          (subscribers[i].registered /\ subscribers'[i].registered
             /\ emitted' = emitted + 1)
            => Len(subscribers'[i].queue) = Len(subscribers[i].queue) + 1]_vars

\* C40: every subscriber of the event stream of a scan eventually
\* receives a terminating item once the scan is over, whether it
\* subscribed before or after the end of the scan
EverySubscriberTerminated ==
    \A i \in 1..MaxSubscribers :
        (Waiting(i) /\ stream_scan = "over") ~> ~Waiting(i)

====
